---- MODULE Spec2Model ----
(***************************************************************************)
(* PicoClaw verified core: routing, tool authorization, audit log,         *)
(* session, agent loop and the STDIO JSON-RPC runtime that drives them,    *)
(* together with the campaign guardrail checks (F* and Go).                *)
(*                                                                         *)
(* OCaml strings are TLA+ strings (joined with \o), OCaml lists are        *)
(* sequences, an OCaml option is the empty sequence (None) or a one        *)
(* element sequence (Some x), a variant is a record with a tag.            *)
(***************************************************************************)
EXTENDS Integers, Sequences, FiniteSets, TLC

VARIABLES
    \* ---- STDIO runtime (picoclaw-core main) ----
    sessions,          \* Hashtbl session_key -> session
    next_callback_id,  \* global callback id counter
    pc,                \* where the single thread of the core stands
    req,               \* the JSON-RPC request being handled
    ls,                \* the loop's state argument
    fuel,              \* the loop's fuel argument
    todo,              \* authorized tool calls still to execute (fold input)
    log_acc,           \* audit log accumulated by the tool fold
    tool_msgs,         \* tool messages accumulated by the tool fold
    pending,           \* the callback written to stdout and awaited
    written,           \* the last message written to stdout
    clock,             \* Unix time in seconds, as now () reads it
    hist,              \* observation of the current request (not program state)
    served,            \* number of requests read by the main loop
    spent_fuel,        \* sum of the effective max_iterations of the requests
    exit_code,         \* the exit code of the process once it has exited
    \* ---- audit log, as a value built by appends ----
    alog,              \* an audit_log
    \* ---- campaign guardrails ----
    gr,                \* guardrails
    cs,                \* F* campaign_state
    exec,              \* Go Execution counters
    \* ---- pure functions applied to drawn arguments ----
    rt,                \* a resolve_route call: its arguments and its result
    au,                \* an authorize_tool call: its arguments and its result
    ap,                \* an append_entry call on any log: arguments and result
    it,                \* a step_iteration call: its arguments and its result
    \* ---- a session under add_message and summarize ----
    se,                \* the session, the operations applied, the last one
    \* ---- the Go gateway ----
    rn,                \* campaign Runner: one Execution, its run goroutine, a Stop call
    ra,                \* a resolveAgent call: its arguments and both results
    bus,               \* MessageBus: closed flag, done channel, queues, callers
    px                 \* CoreProxy: callbacks map, calls in flight, the core's output

coreVars == <<sessions, next_callback_id, pc, req, ls, fuel, todo, log_acc,
              tool_msgs, pending, written, clock, hist, served, spent_fuel,
              exit_code>>
logVars  == <<alog>>
campVars == <<gr, cs, exec>>
pureVars == <<rt, au>>
fnVars   == <<ap, it, se>>
goVars   == <<rn, ra, bus, px>>
vars     == <<coreVars, logVars, campVars, pureVars, fnVars, goVars>>

-----------------------------------------------------------------------------
(* Generic list helpers (OCaml List / String). *)

None == <<>>
Some(x) == <<x>>

Min(S) == CHOOSE m \in S : \A n \in S : m <= n

\* List.filter
RECURSIVE Filter(_, _)
Filter(P(_), s) ==
    IF s = <<>> THEN <<>>
    ELSE (IF P(Head(s)) THEN <<Head(s)>> ELSE <<>>) \o Filter(P, Tail(s))

\* List.map
Map(F(_), s) == [i \in 1..Len(s) |-> F(s[i])]

\* List.find_opt: the first element satisfying the predicate
FindOpt(P(_), s) ==
    LET hits == {i \in 1..Len(s) : P(s[i])}
    IN  IF hits = {} THEN None ELSE Some(s[Min(hits)])

\* String.concat sep list
RECURSIVE Concat(_, _)
Concat(sep, l) ==
    IF l = <<>> THEN ""
    ELSE IF Len(l) = 1 THEN l[1]
    ELSE l[1] \o sep \o Concat(sep, Tail(l))

string_of_int(n) == ToString(n)

-----------------------------------------------------------------------------
(* Routing (picoclaw_core.ml, module Routing). *)

build_main_session_key(agent_id) == Concat(":", <<"agent", agent_id, "main">>)

build_peer_session_key_with_channel(scope, agent_id, channel, account_id, peer) ==
    LET prefix == Concat(":", <<"agent", agent_id>>)
    IN  CASE scope = "DMScopeMain" -> Concat(":", <<prefix, "main">>)
          [] scope = "DMScopePerPeer" ->
                Concat(":", <<prefix, channel, "direct", peer.rp_id>>)
          [] scope = "DMScopePerChannelPeer" ->
                Concat(":", <<prefix, channel, "direct", peer.rp_id>>)
          [] scope = "DMScopePerAccountChannelPeer" ->
                Concat(":", <<prefix, account_id, channel, "direct", peer.rp_id>>)

build_peer_session_key(scope, agent_id, channel, account_id, peer) ==
    LET prefix == Concat(":", <<"agent", agent_id>>)
    IN  CASE scope = "DMScopeMain" -> Concat(":", <<prefix, "main">>)
          [] scope = "DMScopePerPeer" -> Concat(":", <<prefix, "direct", peer.rp_id>>)
          [] scope = "DMScopePerChannelPeer" ->
                Concat(":", <<prefix, channel, "direct", peer.rp_id>>)
          [] scope = "DMScopePerAccountChannelPeer" ->
                Concat(":", <<prefix, account_id, channel, "direct", peer.rp_id>>)

build_group_session_key(agent_id, channel, group_id) ==
    Concat(":", <<"agent", agent_id, channel, "group", group_id>>)

matches_peer(b, input) ==
    /\ b.ab_match.bm_peer # None
    /\ input.ri_peer # None
    /\ b.ab_match.bm_peer[1].rp_kind = input.ri_peer[1].rp_kind
    /\ b.ab_match.bm_peer[1].rp_id = input.ri_peer[1].rp_id
    /\ b.ab_match.bm_channel = input.ri_channel

matches_parent_peer(b, input) ==
    /\ b.ab_match.bm_peer # None
    /\ input.ri_parent_peer # None
    /\ b.ab_match.bm_peer[1].rp_kind = input.ri_parent_peer[1].rp_kind
    /\ b.ab_match.bm_peer[1].rp_id = input.ri_parent_peer[1].rp_id
    /\ b.ab_match.bm_channel = input.ri_channel

matches_guild(b, input) ==
    /\ b.ab_match.bm_guild_id # ""
    /\ b.ab_match.bm_guild_id = input.ri_guild_id
    /\ b.ab_match.bm_channel = input.ri_channel

matches_team(b, input) ==
    /\ b.ab_match.bm_team_id # ""
    /\ b.ab_match.bm_team_id = input.ri_team_id
    /\ b.ab_match.bm_channel = input.ri_channel

matches_account(b, input) ==
    /\ b.ab_match.bm_account_id # ""
    /\ b.ab_match.bm_account_id # "*"
    /\ b.ab_match.bm_account_id = input.ri_account_id
    /\ b.ab_match.bm_channel = input.ri_channel
    /\ b.ab_match.bm_peer = None

matches_channel_wildcard(b, input) ==
    /\ b.ab_match.bm_channel = input.ri_channel
    /\ (b.ab_match.bm_account_id = "*" \/ b.ab_match.bm_account_id = "")
    /\ b.ab_match.bm_peer = None
    /\ b.ab_match.bm_guild_id = ""
    /\ b.ab_match.bm_team_id = ""

make_route_default_account(agent_id, reason, scope, input) ==
    LET account_id == IF input.ri_account_id = "" THEN "default"
                      ELSE input.ri_account_id
        session_key ==
            IF input.ri_peer # None
            THEN IF input.ri_peer[1].rp_kind = "direct"
                 THEN build_peer_session_key(scope, agent_id, input.ri_channel,
                                             input.ri_account_id, input.ri_peer[1])
                 ELSE build_group_session_key(agent_id, input.ri_channel,
                                              input.ri_peer[1].rp_id)
            ELSE build_main_session_key(agent_id)
    IN  [rr_agent_id |-> agent_id,
         rr_channel |-> input.ri_channel,
         rr_account_id |-> account_id,
         rr_session_key |-> session_key,
         rr_main_session_key |-> build_main_session_key(agent_id),
         rr_matched_by |-> reason]

make_route(agent_id, reason, scope, input) ==
    LET session_key ==
            IF input.ri_peer # None
            THEN IF input.ri_peer[1].rp_kind = "direct"
                 THEN build_peer_session_key(scope, agent_id, input.ri_channel,
                                             input.ri_account_id, input.ri_peer[1])
                 ELSE build_group_session_key(agent_id, input.ri_channel,
                                              input.ri_peer[1].rp_id)
            ELSE build_main_session_key(agent_id)
    IN  [rr_agent_id |-> agent_id,
         rr_channel |-> input.ri_channel,
         rr_account_id |-> input.ri_account_id,
         rr_session_key |-> session_key,
         rr_main_session_key |-> build_main_session_key(agent_id),
         rr_matched_by |-> reason]

\* the first binding in list order that matches at any level, with its level
resolve_route_first_binding(bindings, default_id, scope, input) ==
    LET AnyLevel(b) ==
            \/ matches_peer(b, input) \/ matches_parent_peer(b, input)
            \/ matches_guild(b, input) \/ matches_team(b, input)
            \/ matches_account(b, input) \/ matches_channel_wildcard(b, input)
        r == FindOpt(AnyLevel, bindings)
    IN  IF r = None THEN make_route(default_id, "MatchedByDefault", scope, input)
        ELSE make_route(r[1].ab_agent_id,
                        IF matches_peer(r[1], input) THEN "MatchedByPeer"
                        ELSE IF matches_parent_peer(r[1], input) THEN "MatchedByParentPeer"
                        ELSE IF matches_guild(r[1], input) THEN "MatchedByGuild"
                        ELSE IF matches_team(r[1], input) THEN "MatchedByTeam"
                        ELSE IF matches_account(r[1], input) THEN "MatchedByAccount"
                        ELSE "MatchedByChannelWildcard",
                        scope, input)

resolve_route(bindings, default_id, scope, input) ==
    LET P1(b) == matches_peer(b, input)
        P2(b) == matches_parent_peer(b, input)
        P3(b) == matches_guild(b, input)
        P4(b) == matches_team(b, input)
        P5(b) == matches_account(b, input)
        P6(b) == matches_channel_wildcard(b, input)
        r1 == FindOpt(P1, bindings)
        r2 == FindOpt(P2, bindings)
        r3 == FindOpt(P3, bindings)
        r4 == FindOpt(P4, bindings)
        r5 == FindOpt(P5, bindings)
        r6 == FindOpt(P6, bindings)
    IN  IF r1 # None THEN make_route(r1[1].ab_agent_id, "MatchedByPeer", scope, input)
        ELSE IF r2 # None THEN make_route(r2[1].ab_agent_id, "MatchedByParentPeer", scope, input)
        ELSE IF r3 # None THEN make_route(r3[1].ab_agent_id, "MatchedByGuild", scope, input)
        ELSE IF r4 # None THEN make_route(r4[1].ab_agent_id, "MatchedByTeam", scope, input)
        ELSE IF r5 # None THEN make_route(r5[1].ab_agent_id, "MatchedByAccount", scope, input)
        ELSE IF r6 # None THEN make_route(r6[1].ab_agent_id, "MatchedByChannelWildcard", scope, input)
        ELSE make_route(default_id, "MatchedByDefault", scope, input)

-----------------------------------------------------------------------------
(* Audit log (PicoClaw.AuditLog.fst; picoclaw_core.ml module AuditLog). *)

\* The hash joins six fields with ":"; the event is not among them.
hash_entry(e) ==
    Concat(":", <<string_of_int(e.ae_sequence),
                  string_of_int(e.ae_timestamp),
                  e.ae_agent_id,
                  e.ae_session_key,
                  e.ae_prev_hash,
                  e.ae_request_id>>)

\* the hash of the first entry
last_hash_of_head(log) ==
    IF log = <<>> THEN "" ELSE hash_entry(log[1])

last_hash(log) ==
    IF log = <<>> THEN "" ELSE hash_entry(log[Len(log)])

next_sequence_from_one(log) == Len(log) + 1

next_sequence(log) == Len(log)

append_entry(log, timestamp, event, agent_id, session_key, request_id) ==
    LET entry == [ae_sequence |-> next_sequence(log),
                  ae_timestamp |-> timestamp,
                  ae_event |-> event,
                  ae_agent_id |-> agent_id,
                  ae_session_key |-> session_key,
                  ae_prev_hash |-> last_hash(log),
                  ae_request_id |-> request_id]
    IN  log \o <<entry>>

chain_valid_pair(prev, cur) ==
    /\ cur.ae_prev_hash = hash_entry(prev)
    /\ cur.ae_sequence = prev.ae_sequence + 1

RECURSIVE chain_valid(_)
chain_valid(log) ==
    IF Len(log) <= 1 THEN TRUE
    ELSE chain_valid_pair(log[1], log[2]) /\ chain_valid(Tail(log))

Event(tag, payload) == [tag |-> tag, payload |-> payload]

log_route(log, timestamp, agent_id, session_key, request_id) ==
    append_entry(log, timestamp, Event("RouteResolved", agent_id),
                 agent_id, session_key, request_id)

log_tool_auth(log, timestamp, tool_name, authorized, agent_id, session_key, request_id) ==
    LET event == IF authorized THEN Event("ToolAuthorized", tool_name)
                 ELSE Event("ToolDenied", tool_name)
    IN  append_entry(log, timestamp, event, agent_id, session_key, request_id)

log_tool_exec(log, timestamp, tool_name, agent_id, session_key, request_id) ==
    append_entry(log, timestamp, Event("ToolExecuted", tool_name),
                 agent_id, session_key, request_id)

log_llm_call(log, timestamp, model, completed, agent_id, session_key, request_id) ==
    LET event == IF completed THEN Event("LLMCallCompleted", model)
                 ELSE Event("LLMCallStarted", model)
    IN  append_entry(log, timestamp, event, agent_id, session_key, request_id)

-----------------------------------------------------------------------------
(* Tool authorization (picoclaw_core.ml module ToolAuth). *)

\* the last entry naming the tool decides
lookup_policy_last(tool_name, policy) ==
    LET hits == {i \in 1..Len(policy) : policy[i].pe_tool_name = tool_name}
    IN  IF hits = {} THEN "RequiresGrant"
        ELSE policy[CHOOSE i \in hits : \A j \in hits : j <= i].pe_level

lookup_policy(tool_name, policy) ==
    LET P(e) == e.pe_tool_name = tool_name
        r == FindOpt(P, policy)
    IN  IF r # None THEN r[1].pe_level ELSE "RequiresGrant"

has_grant(tool_name, agent_id, grants) ==
    LET P(g) == g.g_tool_name = tool_name /\ g.g_agent_id = agent_id
    IN  FindOpt(P, grants)

Authorized(g) == [kind |-> "Authorized", grant |-> g]
Denied(r) == [kind |-> "Denied", reason |-> r]

\* a matching grant authorizes before the policy is looked at
authorize_tool_grant_first(tool_name, agent_id, policy, grants, timestamp) ==
    LET level == lookup_policy(tool_name, policy)
        g == has_grant(tool_name, agent_id, grants)
    IN  IF g # None THEN Authorized(g[1])
        ELSE IF level = "AlwaysAllowed"
        THEN Authorized([g_tool_name |-> tool_name, g_agent_id |-> agent_id,
                         g_issued_at |-> timestamp])
        ELSE Denied("tool '" \o tool_name \o "' is always denied")

\* an always-allowed tool is authorized with the grant of the caller's list
authorize_tool_reusing_grant(tool_name, agent_id, policy, grants, timestamp) ==
    LET level == lookup_policy(tool_name, policy)
        g == has_grant(tool_name, agent_id, grants)
    IN  CASE level = "AlwaysDenied" ->
                Denied("tool '" \o tool_name \o "' is always denied")
          [] level = "AlwaysAllowed" ->
                IF g # None THEN Authorized(g[1])
                ELSE Authorized([g_tool_name |-> tool_name, g_agent_id |-> agent_id,
                                 g_issued_at |-> timestamp])
          [] level = "RequiresGrant" ->
                IF g # None THEN Authorized(g[1])
                ELSE Denied("no grant for tool '" \o tool_name \o "' agent '"
                            \o agent_id \o "'")

authorize_tool(tool_name, agent_id, policy, grants, timestamp) ==
    LET level == lookup_policy(tool_name, policy)
    IN  CASE level = "AlwaysDenied" ->
                Denied("tool '" \o tool_name \o "' is always denied")
          [] level = "AlwaysAllowed" ->
                Authorized([g_tool_name |-> tool_name, g_agent_id |-> agent_id,
                            g_issued_at |-> timestamp])
          [] level = "RequiresGrant" ->
                LET g == has_grant(tool_name, agent_id, grants)
                IN  IF g # None THEN Authorized(g[1])
                    ELSE Denied("no grant for tool '" \o tool_name \o "' agent '"
                                \o agent_id \o "'")

-----------------------------------------------------------------------------
(* Session (picoclaw_core.ml module Session). *)

empty_session(key) ==
    [s_key |-> key, s_messages |-> <<>>, s_summary |-> "", s_message_count |-> 0]

\* the message is appended, the count is not raised
add_message_uncounted(s, msg) ==
    [s_key |-> s.s_key,
     s_messages |-> s.s_messages \o <<msg>>,
     s_summary |-> s.s_summary,
     s_message_count |-> s.s_message_count]

add_message(s, msg) ==
    [s_key |-> s.s_key,
     s_messages |-> s.s_messages \o <<msg>>,
     s_summary |-> s.s_summary,
     s_message_count |-> s.s_message_count + 1]

\* let rec drop n = function ... in summarize
RECURSIVE drop(_, _)
drop(n, l) ==
    IF l = <<>> THEN <<>>
    ELSE IF n > 0 THEN drop(n - 1, Tail(l))
    ELSE l

\* the first keep_last messages are kept
summarize_keep_first(s, new_summary, keep_last) ==
    LET msgs == s.s_messages
        len == Len(msgs)
        kept == IF keep_last >= len THEN msgs ELSE SubSeq(msgs, 1, keep_last)
        combined == IF s.s_summary = "" THEN new_summary
                    ELSE s.s_summary \o "\n\n" \o new_summary
    IN  [s_key |-> s.s_key, s_messages |-> kept, s_summary |-> combined,
         s_message_count |-> s.s_message_count]

summarize(s, new_summary, keep_last) ==
    LET msgs == s.s_messages
        len == Len(msgs)
        kept == IF keep_last >= len THEN msgs
                ELSE LET start == len - keep_last
                     IN  drop(start, msgs)
        combined == IF s.s_summary = "" THEN new_summary
                    ELSE s.s_summary \o "\n\n" \o new_summary
    IN  [s_key |-> s.s_key, s_messages |-> kept, s_summary |-> combined,
         s_message_count |-> s.s_message_count]

Message(role, content, reasoning, tool_calls, tool_call_id) ==
    [msg_role |-> role, msg_content |-> content, msg_reasoning_content |-> reasoning,
     msg_tool_calls |-> tool_calls, msg_tool_call_id |-> tool_call_id]

build_context(s) ==
    IF s.s_summary = "" THEN s.s_messages
    ELSE <<Message("System", "Previous conversation summary:\n" \o s.s_summary,
                   "", <<>>, "")>> \o s.s_messages

RECURSIVE FoldAddMessage(_, _)
FoldAddMessage(s, msgs) ==
    IF msgs = <<>> THEN s ELSE FoldAddMessage(add_message(s, Head(msgs)), Tail(msgs))

-----------------------------------------------------------------------------
(* Agent loop (PicoClaw.AgentLoop.fst; picoclaw_core.ml module AgentLoop). *)

FinalResponse(content, state) == [tag |-> "FinalResponse", content |-> content, state |-> state]
NeedsToolCalls(calls, state) == [tag |-> "NeedsToolCalls", calls |-> calls, state |-> state]
FuelExhausted(state) == [tag |-> "FuelExhausted", state |-> state]

\* tool calls are looked at before the fuel
classify_response_tools_first(response, state, f) ==
    IF Len(response.lr_tool_calls) > 0
    THEN NeedsToolCalls(response.lr_tool_calls, state)
    ELSE IF f = 0 THEN FuelExhausted(state)
         ELSE FinalResponse(response.lr_content, state)

classify_response(response, state, f) ==
    IF f = 0 THEN FuelExhausted(state)
    ELSE IF Len(response.lr_tool_calls) > 0
         THEN NeedsToolCalls(response.lr_tool_calls, state)
         ELSE FinalResponse(response.lr_content, state)

\* the outcome carries the state it was given
step_iteration_same_state(state, response, f, timestamp) ==
    LET log1 == log_llm_call(state.ls_audit_log, timestamp, "model", TRUE,
                             state.ls_agent_id, state.ls_session.s_key,
                             state.ls_request_id)
    IN  <<classify_response(response, state, f), log1>>

\* returns <<outcome, log1>>
step_iteration(state, response, f, timestamp) ==
    LET log1 == log_llm_call(state.ls_audit_log, timestamp, "model", TRUE,
                             state.ls_agent_id, state.ls_session.s_key,
                             state.ls_request_id)
        assistant_msg == Message("Assistant", response.lr_content,
                                 response.lr_reasoning_content,
                                 response.lr_tool_calls, "")
        new_state == [ls_session |-> add_message(state.ls_session, assistant_msg),
                      ls_audit_log |-> log1,
                      ls_messages |-> state.ls_messages \o <<assistant_msg>>,
                      ls_iteration |-> state.ls_iteration + 1,
                      ls_agent_id |-> state.ls_agent_id,
                      ls_request_id |-> state.ls_request_id]
    IN  <<classify_response(response, new_state, f), log1>>

init_loop_fresh_window(route, sess, user_content, request_id, timestamp) ==
    LET user_msg == Message("User", user_content, "", <<>>, "")
    IN  [ls_session |-> add_message(sess, user_msg),
         ls_audit_log |-> log_route(<<>>, timestamp, route.rr_agent_id,
                                    route.rr_session_key, request_id),
         ls_messages |-> <<user_msg>>,
         ls_iteration |-> 0,
         ls_agent_id |-> route.rr_agent_id,
         ls_request_id |-> request_id]

init_loop(route, sess, user_content, request_id, timestamp) ==
    LET user_msg == Message("User", user_content, "", <<>>, "")
        sess_with_msg == add_message(sess, user_msg)
    IN  [ls_session |-> sess_with_msg,
         ls_audit_log |-> log_route(<<>>, timestamp, route.rr_agent_id,
                                    route.rr_session_key, request_id),
         ls_messages |-> build_context(sess_with_msg),
         ls_iteration |-> 0,
         ls_agent_id |-> route.rr_agent_id,
         ls_request_id |-> request_id]

\* list of <<tool_call, decision>>
authorize_tool_calls(calls, agent_id, policy, grants, timestamp) ==
    LET F(tc) == <<tc, authorize_tool(tc.tc_name, agent_id, policy, grants, timestamp)>>
    IN  Map(F, calls)

filter_every_call(decisions) ==
    LET F(d) == d[1]
    IN  Map(F, decisions)

filter_authorized(decisions) ==
    LET P(d) == d[2].kind = "Authorized"
        F(d) == d[1]
    IN  Map(F, Filter(P, decisions))

\* the denied calls, last one first
filter_denied_reversed(decisions) ==
    LET P(d) == d[2].kind = "Denied"
        F(d) == <<d[1], d[2].reason>>
        denied == Map(F, Filter(P, decisions))
    IN  [i \in 1..Len(denied) |-> denied[Len(denied) + 1 - i]]

filter_denied(decisions) ==
    LET P(d) == d[2].kind = "Denied"
        F(d) == <<d[1], d[2].reason>>
    IN  Map(F, Filter(P, decisions))

-----------------------------------------------------------------------------
(* JSON values and the wire codec (json_codec.ml).  A JSON value carries   *)
(* its type tag, so the decoders default on a value of the wrong type as   *)
(* the OCaml pattern matches do.                                           *)

JNull == [t |-> "null"]
JStr(s) == [t |-> "str", v |-> s]
JInt(n) == [t |-> "int", v |-> n]
JList(l) == [t |-> "list", v |-> l]
JObj(f) == [t |-> "obj", v |-> f]

string_of_json(j) == IF j.t = "str" THEN j.v ELSE ""
int_of_json(j) == IF j.t = "int" THEN j.v ELSE 0
list_of_json(F(_), j) == IF j.t = "list" THEN Map(F, j.v) ELSE <<>>
option_of_json(F(_), j) == IF j = JNull THEN None ELSE Some(F(j))

assoc_field(key, j) ==
    IF j.t = "obj" THEN (IF key \in DOMAIN j.v THEN j.v[key] ELSE JNull) ELSE JNull

route_peer_of_json(j) ==
    [rp_kind |-> string_of_json(assoc_field("kind", j)),
     rp_id |-> string_of_json(assoc_field("id", j))]

route_input_of_json(j) ==
    [ri_channel |-> string_of_json(assoc_field("channel", j)),
     ri_account_id |-> string_of_json(assoc_field("account_id", j)),
     ri_peer |-> option_of_json(route_peer_of_json, assoc_field("peer", j)),
     ri_parent_peer |-> option_of_json(route_peer_of_json, assoc_field("parent_peer", j)),
     ri_guild_id |-> string_of_json(assoc_field("guild_id", j)),
     ri_team_id |-> string_of_json(assoc_field("team_id", j))]

binding_match_of_json(j) ==
    [bm_channel |-> string_of_json(assoc_field("channel", j)),
     bm_account_id |-> string_of_json(assoc_field("account_id", j)),
     bm_peer |-> option_of_json(route_peer_of_json, assoc_field("peer", j)),
     bm_guild_id |-> string_of_json(assoc_field("guild_id", j)),
     bm_team_id |-> string_of_json(assoc_field("team_id", j))]

agent_binding_of_json(j) ==
    [ab_agent_id |-> string_of_json(assoc_field("agent_id", j)),
     ab_match |-> binding_match_of_json(assoc_field("match", j))]

tool_definition_of_json(j) ==
    [td_name |-> string_of_json(assoc_field("name", j)),
     td_description |-> string_of_json(assoc_field("description", j)),
     td_parameters |-> string_of_json(assoc_field("parameters", j))]

function_call_of_json(j) ==
    [fc_name |-> string_of_json(assoc_field("name", j)),
     fc_arguments |-> string_of_json(assoc_field("arguments", j))]

tool_call_of_json(j) ==
    [tc_id |-> string_of_json(assoc_field("id", j)),
     tc_type |-> string_of_json(assoc_field("type", j)),
     tc_function |-> option_of_json(function_call_of_json, assoc_field("function", j)),
     tc_name |-> string_of_json(assoc_field("name", j))]

tool_result_of_json(j) ==
    [tr_for_llm |-> string_of_json(assoc_field("for_llm", j)),
     tr_for_user |-> string_of_json(assoc_field("for_user", j))]

llm_response_of_json(j) ==
    [lr_content |-> string_of_json(assoc_field("content", j)),
     lr_reasoning_content |-> string_of_json(assoc_field("reasoning_content", j)),
     lr_tool_calls |-> list_of_json(tool_call_of_json, assoc_field("tool_calls", j)),
     lr_finish_reason |-> string_of_json(assoc_field("finish_reason", j))]

string_to_dm_scope(s) ==
    CASE s = "per-peer" -> "DMScopePerPeer"
      [] s = "per-channel-peer" -> "DMScopePerChannelPeer"
      [] s = "per-account-channel-peer" -> "DMScopePerAccountChannelPeer"
      [] OTHER -> "DMScopeMain"

\* policy, grants and guardrails of the params are not read
process_message_params_of_json(j) ==
    [pm_route_input |-> route_input_of_json(assoc_field("route_input", j)),
     pm_content |-> string_of_json(assoc_field("content", j)),
     pm_bindings |-> list_of_json(agent_binding_of_json, assoc_field("bindings", j)),
     pm_default_agent |-> string_of_json(assoc_field("default_agent", j)),
     pm_dm_scope |-> string_to_dm_scope(string_of_json(assoc_field("dm_scope", j))),
     pm_tool_definitions |->
         list_of_json(tool_definition_of_json, assoc_field("tool_definitions", j)),
     pm_max_iterations |-> int_of_json(assoc_field("max_iterations", j)),
     pm_request_id |-> string_of_json(assoc_field("request_id", j))]

json_rpc_request(id, method, params) ==
    [jsonrpc |-> "2.0", id |-> id, method |-> method, params |-> params]

json_rpc_response(id, result) ==
    [jsonrpc |-> "2.0", id |-> id, result |-> result]

json_rpc_error(id, code, message) ==
    [jsonrpc |-> "2.0", id |-> id, error |-> [code |-> code, message |-> message]]

-----------------------------------------------------------------------------
(* Campaign guardrails: PicoClaw.Campaign in F-star and pkg/campaign in Go. *)

should_halt_strict(g, s) ==
    IF s.cs_killed THEN Some("KillSwitchActivated")
    ELSE IF s.cs_completed THEN Some("CampaignCompleted")
    ELSE IF s.cs_spent_cents > g.gr_budget_cents THEN Some("BudgetExhausted")
    ELSE IF s.cs_elapsed_minutes > g.gr_max_duration THEN Some("DurationExceeded")
    ELSE IF s.cs_tool_calls > g.gr_max_tool_calls THEN Some("ToolCallLimitReached")
    ELSE IF s.cs_iterations > g.gr_max_iterations THEN Some("IterationLimitReached")
    ELSE None

\* completion is looked at before the kill switch
should_halt_completed_first(g, s) ==
    IF s.cs_completed THEN Some("CampaignCompleted")
    ELSE IF s.cs_killed THEN Some("KillSwitchActivated")
    ELSE IF s.cs_spent_cents >= g.gr_budget_cents THEN Some("BudgetExhausted")
    ELSE IF s.cs_elapsed_minutes >= g.gr_max_duration THEN Some("DurationExceeded")
    ELSE IF s.cs_tool_calls >= g.gr_max_tool_calls THEN Some("ToolCallLimitReached")
    ELSE IF s.cs_iterations >= g.gr_max_iterations THEN Some("IterationLimitReached")
    ELSE None

should_halt(g, s) ==
    IF s.cs_killed THEN Some("KillSwitchActivated")
    ELSE IF s.cs_completed THEN Some("CampaignCompleted")
    ELSE IF s.cs_spent_cents >= g.gr_budget_cents THEN Some("BudgetExhausted")
    ELSE IF s.cs_elapsed_minutes >= g.gr_max_duration THEN Some("DurationExceeded")
    ELSE IF s.cs_tool_calls >= g.gr_max_tool_calls THEN Some("ToolCallLimitReached")
    ELSE IF s.cs_iterations >= g.gr_max_iterations THEN Some("IterationLimitReached")
    ELSE None

record_tool_call(s, cost_cents) ==
    [s EXCEPT !.cs_tool_calls = @ + 1, !.cs_spent_cents = @ + cost_cents]

\* the elapsed minutes replace the total
record_iteration_elapsed_set(s, elapsed) ==
    [s EXCEPT !.cs_iterations = @ + 1, !.cs_elapsed_minutes = elapsed]

record_iteration(s, elapsed) ==
    [s EXCEPT !.cs_iterations = @ + 1, !.cs_elapsed_minutes = @ + elapsed]

activate_kill_switch(s) == [s EXCEPT !.cs_killed = TRUE]

mark_completed(s) == [s EXCEPT !.cs_completed = TRUE]

init_state ==
    [cs_elapsed_minutes |-> 0, cs_tool_calls |-> 0, cs_spent_cents |-> 0,
     cs_iterations |-> 0, cs_killed |-> FALSE, cs_completed |-> FALSE]

\* Go: the Execution fields the guardrail check reads.  ElapsedMinutes is
\* int(time.Since(exec.StartTime).Minutes()); Completed is Status = StatusCompleted.
checkGuardrails(e, g) ==
    IF e.KillSwitchUsed THEN "kill_switch_activated"
    ELSE IF e.ElapsedMinutes >= g.gr_max_duration THEN "duration_exceeded"
    ELSE IF e.SpentCents >= g.gr_budget_cents THEN "budget_exhausted"
    ELSE IF e.ToolCalls >= g.gr_max_tool_calls THEN "tool_call_limit"
    ELSE IF e.Iterations >= g.gr_max_iterations THEN "iteration_limit"
    ELSE ""

\* The *Execution a guardrail function is handed: a pointer (None is nil) to
\* the execution with its Definition pointer, whose Guardrails are g.
WithDefinition(e, g) ==
    Some([SpentCents |-> e.SpentCents, ToolCalls |-> e.ToolCalls,
          Iterations |-> e.Iterations, ElapsedMinutes |-> e.ElapsedMinutes,
          KillSwitchUsed |-> e.KillSwitchUsed, Completed |-> e.Completed,
          Definition |-> Some([Guardrails |-> g])])

CanExecuteTool_without_read_only(execPtr, toolName) ==
    IF execPtr = None THEN TRUE
    ELSE IF execPtr[1].Definition = None THEN TRUE
    ELSE LET e == execPtr[1]
             g == e.Definition[1].Guardrails
         IN  IF e.KillSwitchUsed THEN FALSE
             ELSE IF e.ToolCalls >= g.gr_max_tool_calls THEN FALSE
             ELSE TRUE

\* the limit is passed only above MaxToolCalls
CanExecuteTool_limit_exclusive(execPtr, toolName) ==
    IF execPtr = None THEN TRUE
    ELSE IF execPtr[1].Definition = None THEN TRUE
    ELSE LET e == execPtr[1]
             g == e.Definition[1].Guardrails
         IN  IF e.KillSwitchUsed THEN FALSE
             ELSE IF g.gr_read_only
                     /\ toolName \in {"write_file", "exec_command", "delete_file"}
                  THEN FALSE
             ELSE IF e.ToolCalls > g.gr_max_tool_calls THEN FALSE
             ELSE TRUE

CanExecuteTool(execPtr, toolName) ==
    IF execPtr = None THEN TRUE
    ELSE IF execPtr[1].Definition = None THEN TRUE
    ELSE LET e == execPtr[1]
             g == e.Definition[1].Guardrails
         IN  IF e.KillSwitchUsed THEN FALSE
             ELSE IF g.gr_read_only
                     /\ toolName \in {"write_file", "exec_command", "delete_file"}
                  THEN FALSE
             ELSE IF e.ToolCalls >= g.gr_max_tool_calls THEN FALSE
             ELSE TRUE

RecordToolCall(e, costCents) ==
    [e EXCEPT !.ToolCalls = @ + 1, !.SpentCents = @ + costCents]

NewExecution ==
    [SpentCents |-> 0, ToolCalls |-> 0, Iterations |-> 0, ElapsedMinutes |-> 0,
     KillSwitchUsed |-> FALSE, Completed |-> FALSE]

-----------------------------------------------------------------------------
(* The STDIO runtime (picoclaw-core main): session store, callbacks,       *)
(* process_message, handle_request and the main loop.                      *)
(*                                                                         *)
(* The core is one thread that blocks only in read_message.  An action is  *)
(* the code that runs between two reads: it starts when read_message       *)
(* returns a message and ends at the next read_message call.               *)

MaxRequests == 2       \* requests the shell sends in a run
MaxFuel == 10          \* sum of the effective max_iterations of those requests
MaxClock == 1          \* seconds that pass during a run

DefaultMaxIterations == 10
FirstCallbackId == 1

\* policy and grants process_message passes to authorize_tool_calls
LoopPolicy == <<>>
LoopGrants == <<>>

now == clock

get_or_create_session(tbl, key) ==
    IF key \in DOMAIN tbl THEN <<tbl[key], tbl>>
    ELSE <<empty_session(key),
           [k \in DOMAIN tbl \cup {key} |->
               IF k = key THEN empty_session(key) ELSE tbl[k]]>>

save_session(tbl, s) ==
    [k \in DOMAIN tbl \cup {s.s_key} |-> IF k = s.s_key THEN s ELSE tbl[k]]

fresh_id(counter) == <<counter, counter + 1>>

ProcessResult(content, agent_id, session_key, audit_log) ==
    [content |-> content, agent_id |-> agent_id, session_key |-> session_key,
     audit_log |-> audit_log]

effective_max_iterations(params) ==
    IF params.pm_max_iterations > 0 THEN params.pm_max_iterations
    ELSE DefaultMaxIterations

next_fuel_unchanged(f) == f

\* the fuel of the recursive call: loop updated_state (fuel - 1)
next_fuel(f) == f - 1

\* What a stdin message is, as a JSON-RPC peer would classify it.
MsgKind(msg) ==
    IF assoc_field("method", msg) # JNull THEN "request"
    ELSE IF assoc_field("error", msg) # JNull THEN "error"
    ELSE IF assoc_field("result", msg) # JNull THEN "response"
    ELSE "other"

MsgId(msg) == int_of_json(assoc_field("id", msg))

NoHist == [llm_calls |-> 0, decisions |-> <<>>, execs |-> <<>>, reads |-> {},
           returned |-> FALSE]

\* The state a piece of the handler leaves when it blocks or returns.
Returned(rq, state, f, result, cbid, save, h) ==
    [pc |-> "idle", ls |-> state, fuel |-> f, todo |-> <<>>, log_acc |-> <<>>,
     tool_msgs |-> <<>>, pending |-> None,
     written |-> json_rpc_response(rq.id, result),
     next_callback_id |-> cbid, save |-> save,
     hist |-> [h EXCEPT !.returned = TRUE]]

Blocked(state, f, rest, logacc, msgs, cbid, method, params, h) ==
    LET ids == fresh_id(cbid)
        call == json_rpc_request(ids[1], method, params)
    IN  [pc |-> "await", ls |-> state, fuel |-> f, todo |-> rest, log_acc |-> logacc,
         tool_msgs |-> msgs, pending |-> Some(call), written |-> call,
         next_callback_id |-> ids[2], save |-> None, hist |-> h]

\* let rec loop state fuel: up to the call_llm it blocks in, or its return
Loop(rq, state, f, cbid, h) ==
    IF f <= 0
    THEN LET log == append_entry(state.ls_audit_log, now,
                                 Event("MessageProcessed", "fuel_exhausted"),
                                 state.ls_agent_id, state.ls_session.s_key,
                                 state.ls_request_id)
         IN  Returned(rq, state, f,
                      ProcessResult("I've reached the maximum number of iterations.",
                                    state.ls_agent_id, state.ls_session.s_key, log),
                      cbid, None, h)
    ELSE Blocked(state, f, <<>>, <<>>, <<>>, cbid, "llm_call",
                 [messages |-> state.ls_messages,
                  tools |-> rq.params.pm_tool_definitions,
                  agent_id |-> state.ls_agent_id,
                  request_id |-> state.ls_request_id],
                 [h EXCEPT !.llm_calls = @ + 1])

\* The fold over the authorized calls: up to the execute_tool it blocks in,
\* or, the list done, on to the next loop round.
ExecuteFold(rq, tool_state, rest, logacc, msgs, f, cbid, h) ==
    IF rest = <<>>
    THEN LET updated_state ==
                 [tool_state EXCEPT
                     !.ls_messages = @ \o msgs,
                     !.ls_session = FoldAddMessage(@, msgs),
                     !.ls_audit_log = logacc]
         IN  Loop(rq, updated_state, next_fuel(f), cbid, h)
    ELSE LET tc == Head(rest)
             log_auth == log_tool_auth(logacc, now, tc.tc_name, TRUE,
                                       tool_state.ls_agent_id,
                                       tool_state.ls_session.s_key,
                                       tool_state.ls_request_id)
             arguments == IF tc.tc_function # None
                          THEN tc.tc_function[1].fc_arguments ELSE "{}"
         IN  Blocked(tool_state, f, rest, log_auth, msgs, cbid, "execute_tool",
                     [tool_name |-> tc.tc_name, arguments |-> arguments,
                      agent_id |-> tool_state.ls_agent_id, grant_proof |-> "",
                      request_id |-> tool_state.ls_request_id],
                     [h EXCEPT !.execs = Append(@, tc)])

RECURSIVE LogDenied(_, _, _)
LogDenied(log, denied, tool_state) ==
    IF denied = <<>> THEN log
    ELSE LogDenied(log_tool_auth(log, now, Head(denied)[1].tc_name, FALSE,
                                 tool_state.ls_agent_id, tool_state.ls_session.s_key,
                                 tool_state.ls_request_id),
                   Tail(denied), tool_state)

\* an exit that returns the log as the loop left it
Finish_without_entry(rq, detail, content, final_state, log, f, cbid, h) ==
    Returned(rq, final_state, f,
             ProcessResult(content, final_state.ls_agent_id,
                           final_state.ls_session.s_key, log),
             cbid, Some(final_state.ls_session), h)

\* One exit of the loop that saves: append MessageProcessed, save_session, return.
Finish(rq, detail, content, final_state, log, f, cbid, h) ==
    LET log2 == append_entry(log, now, Event("MessageProcessed", detail),
                             final_state.ls_agent_id, final_state.ls_session.s_key,
                             final_state.ls_request_id)
    IN  Returned(rq, final_state, f,
                 ProcessResult(content, final_state.ls_agent_id,
                               final_state.ls_session.s_key, log2),
                 cbid, Some(final_state.ls_session), h)

\* call_llm's read returned msg: the rest of that loop round
AfterLLM(rq, msg, h) ==
    LET response == llm_response_of_json(assoc_field("result", msg))
        so == step_iteration(ls, response, fuel, now)
        outcome == so[1]
        log == so[2]
    IN  CASE outcome.tag = "FinalResponse" ->
                Finish(rq, "final_response", outcome.content, outcome.state, log,
                       fuel, next_callback_id, h)
          [] outcome.tag = "NeedsToolCalls" ->
                LET tool_state == outcome.state
                    decisions == authorize_tool_calls(outcome.calls,
                                     tool_state.ls_agent_id, LoopPolicy, LoopGrants, now)
                    authorized == filter_authorized(decisions)
                    denied == filter_denied(decisions)
                    log_with_denied == LogDenied(log, denied, tool_state)
                IN  ExecuteFold(rq, tool_state, authorized, log_with_denied, <<>>,
                                fuel, next_callback_id,
                                [h EXCEPT !.decisions = @ \o decisions])
          [] outcome.tag = "FuelExhausted" ->
                Finish(rq, "fuel_exhausted", "I've reached the maximum number of iterations.",
                       outcome.state, log, fuel, next_callback_id, h)
          [] outcome.tag = "IterationError" ->
                Finish(rq, "error:" \o outcome.msg, outcome.msg, outcome.state, log,
                       fuel, next_callback_id, h)

\* execute_tool's read returned msg: the rest of that fold step
AfterTool(rq, msg, h) ==
    LET result == tool_result_of_json(assoc_field("result", msg))
        tc == Head(todo)
        log_exec == log_tool_exec(log_acc, now, tc.tc_name, ls.ls_agent_id,
                                  ls.ls_session.s_key, ls.ls_request_id)
        tool_msg == Message("Tool", result.tr_for_llm, "", <<>>, tc.tc_id)
    IN  ExecuteFold(rq, ls, Tail(todo), log_exec, tool_msgs \o <<tool_msg>>,
                    fuel, next_callback_id, h)

\* process_message up to its first call_llm
process_message(rq, tbl, h) ==
    LET params == rq.params
        route == resolve_route(params.pm_bindings, params.pm_default_agent,
                               params.pm_dm_scope, params.pm_route_input)
        got == get_or_create_session(tbl, route.rr_session_key)
        state == init_loop(route, got[1], params.pm_content, params.pm_request_id, now)
        max_iter == effective_max_iterations(params)
    IN  <<Loop(rq, state, max_iter, next_callback_id, h), got[2]>>

Install(c, tbl) ==
    /\ pc' = c.pc
    /\ ls' = c.ls
    /\ fuel' = c.fuel
    /\ todo' = c.todo
    /\ log_acc' = c.log_acc
    /\ tool_msgs' = c.tool_msgs
    /\ pending' = c.pending
    /\ written' = c.written
    /\ next_callback_id' = c.next_callback_id
    /\ hist' = c.hist
    /\ sessions' = IF c.save # None THEN save_session(tbl, c.save[1]) ELSE tbl


-----------------------------------------------------------------------------
(* What the shell sends on stdin. *)

PeerJson == JObj([kind |-> JStr("direct"), id |-> JStr("u1")])

RouteInputJson(peer) ==
    JObj([channel |-> JStr("telegram"), account_id |-> JStr(""), peer |-> peer,
          parent_peer |-> JNull, guild_id |-> JStr(""), team_id |-> JStr("")])

BindingsJson ==
    JList(<<JObj([agent_id |-> JStr("B"),
                  match |-> JObj([channel |-> JStr("telegram"),
                                  account_id |-> JStr(""), peer |-> PeerJson,
                                  guild_id |-> JStr(""), team_id |-> JStr("")])])>>)

GuardrailsJson ==
    JObj([max_duration_minutes |-> JInt(60), budget_cents |-> JInt(100),
          max_tool_calls |-> JInt(10), max_iterations |-> JInt(1),
          read_only |-> [t |-> "bool", v |-> TRUE]])

\* <<peer, max_iterations>> of the process_message requests the shell sends
ProcessMessageInputs ==
    {<<JNull, 0>>, <<JNull, 1>>, <<PeerJson, 2>>, <<PeerJson, -1>>, <<JNull, 3>>}

\* the policy a request carries: both tools the model may call are allowed
PolicyJson ==
    JList(<<JObj([tool_name |-> JStr("web_search"), level |-> JStr("AlwaysAllowed")]),
            JObj([tool_name |-> JStr("exec_command"), level |-> JStr("AlwaysAllowed")])>>)

ProcessMessageJson(id, peer, max_iterations) ==
    JObj([jsonrpc |-> JStr("2.0"), id |-> JInt(id), method |-> JStr("process_message"),
          params |-> JObj([route_input |-> RouteInputJson(peer),
                           content |-> JStr("hello"),
                           bindings |-> BindingsJson,
                           default_agent |-> JStr("main"),
                           dm_scope |-> JStr("per-peer"),
                           tool_definitions |->
                               JList(<<JObj([name |-> JStr("web_search"),
                                             description |-> JStr("search"),
                                             parameters |-> JStr("{}")])>>),
                           max_iterations |-> JInt(max_iterations),
                           request_id |-> JStr("req-" \o ToString(id)),
                           policy |-> PolicyJson,
                           grants |-> JList(<<>>),
                           guardrails |-> GuardrailsJson])])

MethodJson(id, method) ==
    JObj([jsonrpc |-> JStr("2.0"), id |-> JInt(id), method |-> JStr(method),
          params |-> JNull])

ToolCallJson(id, name) ==
    JObj([id |-> JStr(id), type |-> JStr("function"), name |-> JStr(name),
          function |-> JObj([name |-> JStr(name), arguments |-> JStr("{}")])])

LLMResultJson(content, calls) ==
    JObj([content |-> JStr(content), reasoning_content |-> JStr(""),
          tool_calls |-> JList(calls), finish_reason |-> JStr("stop"),
          usage |-> JNull])

ToolResultJson(out) ==
    JObj([for_llm |-> JStr(out), for_user |-> JStr(""), silent |-> [t |-> "bool", v |-> FALSE],
          is_error |-> [t |-> "bool", v |-> FALSE], async |-> [t |-> "bool", v |-> FALSE]])

ResponseJson(id, result) ==
    JObj([jsonrpc |-> JStr("2.0"), id |-> JInt(id), result |-> result])

ErrorJson(id, message) ==
    JObj([jsonrpc |-> JStr("2.0"), id |-> JInt(id),
          error |-> JObj([code |-> JInt(-32000), message |-> JStr(message)])])

\* the id of the n-th request of the shell
ShellId(n) == 100 + n

\* Requests the shell may send as its n-th
ShellRequests(n) ==
    {ProcessMessageJson(ShellId(n), i[1], i[2]) : i \in ProcessMessageInputs}
    \cup {MethodJson(ShellId(n), "ping"), MethodJson(ShellId(n), "status")}

LLMResults ==
    {LLMResultJson("done", <<>>),
     LLMResultJson("thinking", <<ToolCallJson("c1", "web_search"),
                                 ToolCallJson("c2", "exec_command")>>)}

\* the answers of a model that asks for one tool call at a time
LLMResultsOneCall ==
    {LLMResultJson("done", <<>>),
     LLMResultJson("thinking", <<ToolCallJson("c1", "web_search")>>)}

\* What may arrive on stdin while the callback call is awaited: its answer,
\* an answer carrying another id, a JSON-RPC error, or a new request.
CallbackInputs(call) ==
    (IF call.method = "llm_call"
     THEN {ResponseJson(call.id, r) :
              r \in IF req.params.pm_max_iterations = 3 THEN LLMResultsOneCall
                    ELSE LLMResults}
          \cup {ResponseJson(call.id + 7, LLMResultJson("stale", <<>>))}
     ELSE {ResponseJson(call.id, ToolResultJson("out")),
           ResponseJson(call.id + 7, ToolResultJson("stale"))})
    \cup {ErrorJson(call.id, "boom"), MethodJson(ShellId(served + 1), "ping")}

-----------------------------------------------------------------------------
(* Actions of the runtime. *)

NoLoop == [ls_session |-> empty_session(""), ls_audit_log |-> <<>>,
           ls_messages |-> <<>>, ls_iteration |-> 0, ls_agent_id |-> "",
           ls_request_id |-> ""]

NoRequest == [id |-> 0, method |-> "", params |-> JNull, raw |-> JNull]

CoreInit ==
    /\ sessions = <<>>
    /\ next_callback_id = FirstCallbackId
    /\ pc = "idle"
    /\ req = NoRequest
    /\ ls = NoLoop
    /\ fuel = 0
    /\ todo = <<>>
    /\ log_acc = <<>>
    /\ tool_msgs = <<>>
    /\ pending = None
    /\ written = None
    /\ clock = 0
    /\ hist = NoHist
    /\ served = 0
    /\ spent_fuel = 0
    /\ exit_code = None

LogInit == alog = <<>>

CampInit ==
    /\ gr = [gr_max_duration |-> 0, gr_read_only |-> FALSE, gr_budget_cents |-> 0,
             gr_max_tool_calls |-> 0, gr_max_iterations |-> 0]
    /\ cs = init_state
    /\ exec = NewExecution

\* no pure function applied yet
PureInit == rt = None /\ au = None

\* no append_entry or step_iteration applied yet; the session is empty_session
FnInit ==
    /\ ap = None
    /\ it = None
    /\ se = [s |-> empty_session("agent:main:main"), adds |-> 0, ops |-> 0,
             last |-> None]

\* Go campaign Runner before Start: no execution, nobody holds r.mu
RunnerInit ==
    [pc |-> "idle", steps |-> <<>>, targets |-> <<>>,
     g |-> [gr_max_duration |-> 0, gr_read_only |-> FALSE, gr_budget_cents |-> 0,
            gr_max_tool_calls |-> 0, gr_max_iterations |-> 0],
     i |-> 0, t |-> 0, stepErr |-> "", reason |-> "", start_error |-> "",
     Status |-> "pending", KillSwitchUsed |-> FALSE, Iterations |-> 0,
     Results |-> <<>>, Error |-> "", CurrentStep |-> 0, SpentCents |-> 0,
     ToolCalls |-> 0, ElapsedMinutes |-> 0, cancelled |-> FALSE,
     stop |-> "idle", failed |-> {}]

\* NewMessageBus: both channels empty, done open, closed false, no call running
MaxPublishers == 2  \* concurrent Publish calls
MaxClosers == 2     \* concurrent Close calls
MaxQueue == 1       \* capacity of the inbound and of the outbound channel

BusInit ==
    [closed |-> FALSE, done_closes |-> 0, inbound |-> <<>>, outbound |-> <<>>,
     close_returned |-> FALSE,
     closers |-> [c \in 1..MaxClosers |-> "idle"],
     pubs |-> [p \in 1..MaxPublishers |->
                 [pc |-> "idle", q |-> "inbound", ctxDone |-> FALSE,
                  after |-> FALSE, sent |-> FALSE, result |-> ""]]]

MaxCalls == 2  \* concurrent invocations of call

\* NewCoreProxy after Start: nextID 0, empty callbacks map, reader running,
\* the core's callback ids at their first value
ProxyInit ==
    [nextID |-> 0, callbacks |-> {}, stdin |-> <<>>, stdout |-> <<>>,
     core |-> "running", next_callback_id |-> FirstCallbackId,
     reader |-> "reading", frame |-> <<0, "", 0>>,
     calls |-> [c \in 1..MaxCalls |->
                  [pc |-> "idle", id |-> 0, buf |-> <<>>, closed |-> FALSE,
                   got |-> None, err |-> ""]]]

GoInit ==
    /\ rn = RunnerInit
    /\ ra = None
    /\ bus = BusInit
    /\ px = ProxyInit

\* the main loop reads a request and handle_request runs until it blocks or returns
HandleRequest(msg) ==
    /\ pc = "idle"
    /\ served < MaxRequests
    /\ LET id == int_of_json(assoc_field("id", msg))
           method == string_of_json(assoc_field("method", msg))
           params == assoc_field("params", msg)
       IN  IF method = "process_message"
           THEN LET rq == [id |-> id, method |-> method,
                           params |-> process_message_params_of_json(params),
                           raw |-> params]
                    r == process_message(rq, sessions, NoHist)
                IN  /\ spent_fuel + effective_max_iterations(rq.params) <= MaxFuel
                    /\ spent_fuel' = spent_fuel + effective_max_iterations(rq.params)
                    /\ req' = rq
                    /\ Install(r[1], r[2])
           ELSE /\ written' =
                      IF method = "ping"
                      THEN json_rpc_response(id, [status |-> "ok",
                                                  version |-> "0.8.0-verified"])
                      ELSE json_rpc_error(id, -32601, "Method not found: " \o method)
                /\ req' = [id |-> id, method |-> method, params |-> JNull, raw |-> params]
                /\ UNCHANGED <<sessions, next_callback_id, pc, ls, fuel, todo, log_acc,
                               tool_msgs, pending, hist, spent_fuel>>
    /\ served' = served + 1
    /\ UNCHANGED <<clock, exit_code, logVars, campVars, pureVars, fnVars, goVars>>

\* the read_message a callback blocks in returns msg
CallbackRead(msg) ==
    /\ pc = "await"
    /\ LET call == pending[1]
           h == [hist EXCEPT !.reads = @ \cup
                    {[want |-> call.id, method |-> call.method,
                      kind |-> MsgKind(msg), id |-> MsgId(msg)]}]
       IN  Install(IF call.method = "llm_call" THEN AfterLLM(req, msg, h)
                   ELSE AfterTool(req, msg, h),
                   sessions)
    /\ UNCHANGED <<req, clock, served, spent_fuel, exit_code, logVars, campVars,
                   pureVars, fnVars, goVars>>

\* a second passes
Tick ==
    /\ clock < MaxClock
    /\ clock' = clock + 1
    /\ UNCHANGED <<sessions, next_callback_id, pc, req, ls, fuel, todo, log_acc,
                   tool_msgs, pending, written, hist, served, spent_fuel,
                   exit_code, logVars, campVars, pureVars, fnVars, goVars>>

\* the shell sends its next request
ShellRequest == \E msg \in ShellRequests(served + 1) : HandleRequest(msg)

\* the shell sends something while a callback is awaited
ShellAnswer == pc = "await" /\ \E msg \in CallbackInputs(pending[1]) : CallbackRead(msg)

Next == ShellRequest \/ ShellAnswer \/ Tick

Init == CoreInit /\ LogInit /\ CampInit /\ PureInit /\ FnInit /\ GoInit

Spec == Init /\ [][Next]_vars

-----------------------------------------------------------------------------
(* The runtime on a stdin that may also carry input read_message cannot    *)
(* parse, and that may be closed.                                          *)

\* Printexc.to_string of what read_message raises on a header line that is
\* not a Content-Length header, and on a payload that is not JSON
BadFrameExn == "Failure(\"Invalid Content-Length header\")"
BadJsonExn == "Yojson.Json_error(\"Invalid token\")"
EndOfFileExn == "End_of_file"

\* read_message raises exn.  In a callback the exception leaves
\* process_message and is caught by handle_request, which answers the request
\* in hand with an internal error and returns to the main loop; in the main
\* loop it ends the process, with code 0 on End_of_file and 1 otherwise.  Once
\* stdin is at its end the main loop's next read ends the process.
ReadRaises(exn) ==
    /\ pc \in {"idle", "await"}
    /\ IF pc = "await"
       THEN /\ written' = json_rpc_error(req.id, -32603, "Internal error: " \o exn)
            /\ pc' = IF exn = EndOfFileExn THEN "exited" ELSE "idle"
            /\ exit_code' = IF exn = EndOfFileExn THEN Some(0) ELSE None
            /\ pending' = None
            /\ todo' = <<>>
            /\ log_acc' = <<>>
            /\ tool_msgs' = <<>>
       ELSE /\ pc' = "exited"
            /\ exit_code' = IF exn = EndOfFileExn THEN Some(0) ELSE Some(1)
            /\ UNCHANGED <<written, pending, todo, log_acc, tool_msgs>>
    /\ UNCHANGED <<sessions, next_callback_id, req, ls, fuel, clock, hist, served,
                   spent_fuel, logVars, campVars, pureVars, fnVars, goVars>>

\* the shell sends a frame read_message cannot parse
BadInput == \E exn \in {BadFrameExn, BadJsonExn} : ReadRaises(exn)

\* the shell closes stdin
EndOfFile == ReadRaises(EndOfFileExn)

\* the requests of the shell in this specification: a message allowed one
\* iteration, ping, and a method the core does not know
IORequests(n) ==
    {ProcessMessageJson(ShellId(n), JNull, 1), MethodJson(ShellId(n), "ping"),
     MethodJson(ShellId(n), "status")}

IORequest == \E msg \in IORequests(served + 1) : HandleRequest(msg)

IONext == IORequest \/ ShellAnswer \/ BadInput \/ EndOfFile

SpecIO == Init /\ [][IONext]_vars

-----------------------------------------------------------------------------
(* Campaign guardrails applied to bounded inputs: the F-star campaign_state  *)
(* and the Go Execution are driven through the same history.                *)

MaxLimit == 2     \* guardrail limits range over 0..MaxLimit
MaxCount == 2     \* tool calls and iterations recorded per campaign

GuardrailInputs ==
    [gr_max_duration : 0..MaxLimit, gr_read_only : BOOLEAN,
     gr_budget_cents : 0..MaxLimit,
     gr_max_tool_calls : 0..MaxLimit, gr_max_iterations : 0..MaxLimit]

CampaignInit ==
    /\ gr \in GuardrailInputs
    /\ cs = init_state
    /\ exec = NewExecution

\* a tool call is recorded: record_tool_call, and RecordToolCall on the Execution
CampaignToolCall(cost) ==
    /\ cs.cs_tool_calls < MaxCount
    /\ cs' = record_tool_call(cs, cost)
    /\ exec' = RecordToolCall(exec, cost)
    /\ UNCHANGED <<gr, coreVars, logVars, pureVars, fnVars, goVars>>

\* an iteration is recorded after elapsed minutes: record_iteration, and the
\* runner's exec.Iterations++ with the wall clock that far on
CampaignIteration(elapsed) ==
    /\ cs.cs_iterations < MaxCount
    /\ cs' = record_iteration(cs, elapsed)
    /\ exec' = [exec EXCEPT !.Iterations = @ + 1, !.ElapsedMinutes = @ + elapsed]
    /\ UNCHANGED <<gr, coreVars, logVars, pureVars, fnVars, goVars>>

\* the kill switch: activate_kill_switch, and Runner.Stop's KillSwitchUsed
CampaignKill ==
    /\ ~cs.cs_killed
    /\ cs' = activate_kill_switch(cs)
    /\ exec' = [exec EXCEPT !.KillSwitchUsed = TRUE]
    /\ UNCHANGED <<gr, coreVars, logVars, pureVars, fnVars, goVars>>

\* the campaign completes: mark_completed, and the runner's StatusCompleted
CampaignComplete ==
    /\ ~cs.cs_completed
    /\ cs' = mark_completed(cs)
    /\ exec' = [exec EXCEPT !.Completed = TRUE]
    /\ UNCHANGED <<gr, coreVars, logVars, pureVars, fnVars, goVars>>

CampaignNext ==
    \/ \E cost \in 0..1 : CampaignToolCall(cost)
    \/ \E elapsed \in 0..1 : CampaignIteration(elapsed)
    \/ CampaignKill
    \/ CampaignComplete

InitCampaign == CoreInit /\ LogInit /\ CampaignInit /\ PureInit /\ FnInit /\ GoInit

SpecCampaign == InitCampaign /\ [][CampaignNext]_vars

-----------------------------------------------------------------------------
(* The audit log under arbitrary appends. *)

MaxLogLen == 3    \* entries appended to a log

LogTimestamps == {0, 1}
LogAgents == {"main", "B"}
LogSession == "agent:main:main"
LogRequest == "req-1"
LogEvents == {Event("MessageProcessed", "final_response"), Event("SessionCreated", LogSession)}

LogAppendEntry(t, ev) ==
    /\ Len(alog) < MaxLogLen
    /\ alog' = append_entry(alog, t, ev, "main", LogSession, LogRequest)
    /\ UNCHANGED <<coreVars, campVars, pureVars, fnVars, goVars>>

LogRoute(t, agent) ==
    /\ Len(alog) < MaxLogLen
    /\ alog' = log_route(alog, t, agent, LogSession, LogRequest)
    /\ UNCHANGED <<coreVars, campVars, pureVars, fnVars, goVars>>

LogToolAuth(t, authorized) ==
    /\ Len(alog) < MaxLogLen
    /\ alog' = log_tool_auth(alog, t, "web_search", authorized, "main", LogSession,
                             LogRequest)
    /\ UNCHANGED <<coreVars, campVars, pureVars, fnVars, goVars>>

LogToolExec(t) ==
    /\ Len(alog) < MaxLogLen
    /\ alog' = log_tool_exec(alog, t, "web_search", "main", LogSession, LogRequest)
    /\ UNCHANGED <<coreVars, campVars, pureVars, fnVars, goVars>>

LogLLMCall(t, completed) ==
    /\ Len(alog) < MaxLogLen
    /\ alog' = log_llm_call(alog, t, "model", completed, "main", LogSession, LogRequest)
    /\ UNCHANGED <<coreVars, campVars, pureVars, fnVars, goVars>>

LogNext ==
    \E t \in LogTimestamps :
        \/ \E ev \in LogEvents : LogAppendEntry(t, ev)
        \/ \E agent \in LogAgents : LogRoute(t, agent)
        \/ \E authorized \in BOOLEAN : LogToolAuth(t, authorized)
        \/ LogToolExec(t)
        \/ \E completed \in BOOLEAN : LogLLMCall(t, completed)

SpecLog == Init /\ [][LogNext]_vars

-----------------------------------------------------------------------------
(* resolve_route applied to bounded inputs. *)

MaxBindings == 2  \* bindings in a list

Binding(agent, channel, account, peer, guild, team) ==
    [ab_agent_id |-> agent,
     ab_match |-> [bm_channel |-> channel, bm_account_id |-> account,
                   bm_peer |-> peer, bm_guild_id |-> guild, bm_team_id |-> team]]

Peer(kind, id) == [rp_kind |-> kind, rp_id |-> id]

\* one binding for each level of the cascade, and one of another channel
RouteBindings ==
    {Binding("P", "telegram", "", Some(Peer("direct", "u1")), "", ""),
     Binding("PP", "telegram", "", Some(Peer("group", "thread1")), "", ""),
     Binding("G", "telegram", "", None, "guild1", ""),
     Binding("T", "telegram", "", None, "", "team1"),
     Binding("A", "telegram", "acct1", None, "", ""),
     Binding("W", "telegram", "*", None, "", ""),
     Binding("X", "slack", "", None, "", "")}

RECURSIVE SeqsUpTo(_, _)
SeqsUpTo(S, n) ==
    IF n = 0 THEN {<<>>}
    ELSE LET shorter == SeqsUpTo(S, n - 1)
         IN  shorter \cup {Append(l, x) : l \in shorter, x \in S}

RouteScopes ==
    {"DMScopeMain", "DMScopePerPeer", "DMScopePerChannelPeer",
     "DMScopePerAccountChannelPeer"}

RouteInputs ==
    [ri_channel : {"telegram"},
     ri_account_id : {"", "acct1"},
     ri_peer : {None, Some(Peer("direct", "u1")), Some(Peer("group", "room1"))},
     ri_parent_peer : {None, Some(Peer("group", "thread1"))},
     ri_guild_id : {"", "guild1"},
     ri_team_id : {"", "team1"}]

\* resolve_route is called and returns
ResolveRoute(bindings, default_id, scope, input) ==
    /\ rt = None
    /\ rt' = Some([bindings |-> bindings, default_id |-> default_id, scope |-> scope,
                   input |-> input,
                   route |-> resolve_route(bindings, default_id, scope, input)])
    /\ UNCHANGED <<au, coreVars, logVars, campVars, fnVars, goVars>>

RouteNext ==
    /\ rt = None
    /\ \E bindings \in SeqsUpTo(RouteBindings, MaxBindings) : \E scope \in RouteScopes :
          \E input \in RouteInputs : ResolveRoute(bindings, "main", scope, input)

SpecRoute == Init /\ [][RouteNext]_vars

-----------------------------------------------------------------------------
(* authorize_tool applied to bounded inputs. *)

MaxPolicy == 2    \* entries in a policy
MaxGrants == 2    \* grants in a grant list

AuthTools == {"web_search", "exec_command"}
AuthAgents == {"main", "B"}
AuthTimestamps == {0, 7}

PolicyEntries ==
    [pe_tool_name : AuthTools,
     pe_level : {"AlwaysAllowed", "RequiresGrant", "AlwaysDenied"}]

GrantPool ==
    {[g_tool_name |-> "web_search", g_agent_id |-> "main", g_issued_at |-> 1],
     [g_tool_name |-> "web_search", g_agent_id |-> "main", g_issued_at |-> 2],
     [g_tool_name |-> "web_search", g_agent_id |-> "B", g_issued_at |-> 1],
     [g_tool_name |-> "exec_command", g_agent_id |-> "main", g_issued_at |-> 1]}

\* authorize_tool is called and returns
AuthorizeTool(tool_name, agent_id, policy, grants, timestamp) ==
    /\ au = None
    /\ au' = Some([tool_name |-> tool_name, agent_id |-> agent_id, policy |-> policy,
                   grants |-> grants, timestamp |-> timestamp,
                   decision |-> authorize_tool(tool_name, agent_id, policy, grants,
                                               timestamp)])
    /\ UNCHANGED <<rt, coreVars, logVars, campVars, fnVars, goVars>>

AuthNext ==
    /\ au = None
    /\ \E tool_name \in AuthTools : \E agent_id \in AuthAgents :
          \E policy \in SeqsUpTo(PolicyEntries, MaxPolicy) :
              \E grants \in SeqsUpTo(GrantPool, MaxGrants) :
                  \E timestamp \in AuthTimestamps :
                      AuthorizeTool(tool_name, agent_id, policy, grants, timestamp)

SpecAuth == Init /\ [][AuthNext]_vars

-----------------------------------------------------------------------------
(* append_entry and chain_valid applied to any log, chain-valid or not. *)

MaxAnyLog == 2    \* entries of the log handed to append_entry

AnyEntry(sequence, prev_hash) ==
    [ae_sequence |-> sequence, ae_timestamp |-> 0,
     ae_event |-> Event("SessionCreated", LogSession), ae_agent_id |-> "main",
     ae_session_key |-> LogSession, ae_prev_hash |-> prev_hash,
     ae_request_id |-> LogRequest]

\* entries with a right or wrong sequence number and a right or wrong prev_hash
AnyEntries ==
    {AnyEntry(q, h) : q \in {0, 1, 5}, h \in {"", "junk", hash_entry(AnyEntry(0, ""))}}

AnyLogs == SeqsUpTo(AnyEntries, MaxAnyLog)

AppendEntry(log, timestamp, event, agent_id) ==
    /\ ap = None
    /\ ap' = Some([log |-> log, timestamp |-> timestamp, event |-> event,
                   agent_id |-> agent_id, session_key |-> LogSession,
                   request_id |-> LogRequest,
                   valid |-> chain_valid(log),
                   result |-> append_entry(log, timestamp, event, agent_id,
                                           LogSession, LogRequest)])
    /\ UNCHANGED <<it, se, coreVars, logVars, campVars, pureVars, goVars>>

AppendNext ==
    /\ ap = None
    /\ \E log \in AnyLogs :
          \E timestamp \in LogTimestamps :
              \E event \in LogEvents :
                  \E agent_id \in LogAgents :
                      AppendEntry(log, timestamp, event, agent_id)

SpecAppend == Init /\ [][AppendNext]_vars

-----------------------------------------------------------------------------
(* A session under any interleaving of add_message and summarize. *)

MaxSessionOps == 4    \* operations applied to the session
MaxKeep == 3          \* keep_last ranges over 0..MaxKeep

SessionMessages ==
    {Message("User", "hi", "", <<>>, ""), Message("Assistant", "hello", "", <<>>, "")}

SessionSummaries == {"s1", "s2"}

SessionAddMessage(msg) ==
    /\ se.ops < MaxSessionOps
    /\ se' = [s |-> add_message(se.s, msg), adds |-> se.adds + 1,
              ops |-> se.ops + 1,
              last |-> Some([op |-> "add_message", before |-> se.s, msg |-> msg,
                             new_summary |-> "", keep_last |-> 0])]
    /\ UNCHANGED <<ap, it, coreVars, logVars, campVars, pureVars, goVars>>

SessionSummarize(new_summary, keep_last) ==
    /\ se.ops < MaxSessionOps
    /\ se' = [s |-> summarize(se.s, new_summary, keep_last), adds |-> se.adds,
              ops |-> se.ops + 1,
              last |-> Some([op |-> "summarize", before |-> se.s,
                             msg |-> Message("System", "", "", <<>>, ""),
                             new_summary |-> new_summary, keep_last |-> keep_last])]
    /\ UNCHANGED <<ap, it, coreVars, logVars, campVars, pureVars, goVars>>

SessionNext ==
    \/ \E msg \in SessionMessages : SessionAddMessage(msg)
    \/ \E new_summary \in SessionSummaries :
          \E keep_last \in 0..MaxKeep : SessionSummarize(new_summary, keep_last)

SpecSession == Init /\ [][SessionNext]_vars

-----------------------------------------------------------------------------
(* step_iteration applied to any loop state, response, fuel and timestamp. *)

MaxIteration == 1    \* ls_iteration of the state given ranges over 0..MaxIteration
MaxStepFuel == 1     \* the fuel given ranges over 0..MaxStepFuel

IterUserMessage == Message("User", "hi", "", <<>>, "")

IterStates ==
    [ls_session : {empty_session("agent:main:main"),
                   add_message(empty_session("agent:B:main"), IterUserMessage)},
     ls_audit_log : {<<>>, log_route(<<>>, 0, "main", LogSession, LogRequest)},
     ls_messages : {<<>>, <<IterUserMessage>>},
     ls_iteration : 0..MaxIteration,
     ls_agent_id : LogAgents,
     ls_request_id : {LogRequest}]

IterResponses ==
    {llm_response_of_json(LLMResultJson(content, calls)) :
        content \in {"", "text"},
        calls \in {<<>>, <<ToolCallJson("c1", "web_search")>>,
                   <<ToolCallJson("c1", "web_search"),
                     ToolCallJson("c2", "exec_command")>>}}

StepIteration(state, response, f, timestamp) ==
    /\ it = None
    /\ it' = Some([state |-> state, response |-> response, fuel |-> f,
                   timestamp |-> timestamp,
                   result |-> step_iteration(state, response, f, timestamp)])
    /\ UNCHANGED <<ap, se, coreVars, logVars, campVars, pureVars, goVars>>

IterNext ==
    /\ it = None
    /\ \E state \in IterStates :
          \E response \in IterResponses :
              \E f \in 0..MaxStepFuel :
                  \E timestamp \in AuthTimestamps :
                      StepIteration(state, response, f, timestamp)

SpecIter == Init /\ [][IterNext]_vars

-----------------------------------------------------------------------------
(* The Go campaign Runner: Start, the run goroutine and Stop.  A section of
   code between r.mu.Lock() and r.mu.Unlock() is one step of the run
   goroutine; Stop holds the mutex from StopLock to StopCancel and its
   assignments are steps of their own, so that what the run goroutine does
   without the mutex can fall between them. *)

MaxSteps == 2    \* steps of a campaign definition
MaxElapsed == 1  \* minutes that pass while a campaign runs

DefaultGuardrails ==
    [gr_max_duration |-> 60, gr_read_only |-> FALSE, gr_budget_cents |-> 1000,
     gr_max_tool_calls |-> 100, gr_max_iterations |-> 50]

\* guardrails of the definitions given to Start
RunnerGuardrails ==
    {DefaultGuardrails,
     [DefaultGuardrails EXCEPT !.gr_max_iterations = 1],
     [DefaultGuardrails EXCEPT !.gr_max_duration = 1],
     [DefaultGuardrails EXCEPT !.gr_budget_cents = 0]}

\* r.adapters: the backends an adapter is registered for
RunnerAdapters == {"claude"}

\* def.Targets of the definitions given to Start
RunnerTargets == {<<>>, <<"missing">>, <<"claude">>, <<"missing", "claude">>}

\* def.Steps: n steps, the k-th named k
RunnerSteps(n) == [k \in 1..n |-> [Name |-> k]]

\* r.mu is not held by Stop
MutexFree == rn.stop \notin {"locked", "killed", "written"}

\* ctx.Err() of the context Start derives: cancelled by Stop, or past the
\* deadline of MaxDurationMinutes
ctxErr(r) ==
    IF r.cancelled THEN "context canceled"
    ELSE IF r.ElapsedMinutes >= r.g.gr_max_duration THEN "context deadline exceeded"
    ELSE ""

append_result_uncounted(e, result) == [e EXCEPT !.Results = Append(@, result)]

\* exec.Results = append(exec.Results, result); exec.Iterations++
append_result(e, result) ==
    [e EXCEPT !.Results = Append(@, result), !.Iterations = @ + 1]

\* Runner.Start(ctx, def): a definition without steps is refused, otherwise
\* the execution is registered as running and the run goroutine is started
RunnerStart(n, targets, g) ==
    /\ rn.pc = "idle"
    /\ rn.start_error = ""
    /\ rn' = IF n = 0
             THEN [rn EXCEPT !.start_error = "campaign must have at least one step"]
             ELSE [rn EXCEPT !.pc = "loop", !.steps = RunnerSteps(n),
                             !.targets = targets, !.g = g, !.i = 1,
                             !.Status = "running"]
    /\ UNCHANGED <<coreVars, logVars, campVars, pureVars, fnVars, ra, bus, px>>

\* head of the loop over def.Steps: the range is exhausted, or ctx.Err() is
\* looked at
RunLoop ==
    /\ rn.pc = "loop"
    /\ rn' = [rn EXCEPT !.pc = IF rn.i > Len(rn.steps) THEN "complete"
                                ELSE IF ctxErr(rn) # "" THEN "cancel"
                                ELSE "guard"]
    /\ UNCHANGED <<coreVars, logVars, campVars, pureVars, fnVars, ra, bus, px>>

\* ctx.Err() != nil: under the mutex a running execution becomes canceled
RunCancel ==
    /\ rn.pc = "cancel"
    /\ MutexFree
    /\ rn' = [rn EXCEPT !.pc = "done",
                        !.Status = IF rn.Status = "running" THEN "canceled" ELSE @,
                        !.Error = IF rn.Status = "running" THEN <<ctxErr(rn)>> ELSE @]
    /\ UNCHANGED <<coreVars, logVars, campVars, pureVars, fnVars, ra, bus, px>>

\* checkGuardrails(exec, &def.Guardrails), called without the mutex: while
\* Stop is between taking the mutex and its write of KillSwitchUsed the read
\* races with the write and may see either value
RunGuard ==
    /\ rn.pc = "guard"
    /\ \E k \in (IF rn.stop = "locked" THEN BOOLEAN ELSE {rn.KillSwitchUsed}) :
          LET reason == checkGuardrails([rn EXCEPT !.KillSwitchUsed = k], rn.g)
          IN  rn' = [rn EXCEPT !.reason = reason,
                               !.pc = IF reason = "" THEN "step" ELSE "fail"]
    /\ UNCHANGED <<coreVars, logVars, campVars, pureVars, fnVars, ra, bus, px>>

\* reason != "": under the mutex the execution becomes failed
RunFail ==
    /\ rn.pc = "fail"
    /\ MutexFree
    /\ rn' = [rn EXCEPT !.pc = "done", !.Status = "failed",
                        !.Error = <<"guardrail", rn.reason>>]
    /\ UNCHANGED <<coreVars, logVars, campVars, pureVars, fnVars, ra, bus, px>>

\* exec.CurrentStep = i under the mutex (i counts from 0 in the code)
RunSetStep ==
    /\ rn.pc = "step"
    /\ MutexFree
    /\ rn' = [rn EXCEPT !.CurrentStep = rn.i - 1, !.t = 1, !.stepErr = "",
                        !.pc = IF rn.targets = <<>> THEN "append" ELSE "dispatch"]
    /\ UNCHANGED <<coreVars, logVars, campVars, pureVars, fnVars, ra, bus, px>>

\* one turn of the loop over def.Targets: the adapter is looked up under the
\* read lock; a missing adapter or a failed Execute sets stepErr and goes to
\* the next target, a successful Execute leaves the loop.  failed collects the
\* steps whose targets all failed.
RunDispatch(ok) ==
    /\ rn.pc = "dispatch"
    /\ MutexFree
    /\ LET success == rn.targets[rn.t] \in RunnerAdapters /\ ok
           last == rn.t = Len(rn.targets)
       IN  rn' = [rn EXCEPT
                    !.stepErr = IF rn.targets[rn.t] \notin RunnerAdapters
                                THEN "no adapter for backend"
                                ELSE IF ok THEN "" ELSE "adapter error",
                    !.t = IF success \/ last THEN @ ELSE @ + 1,
                    !.pc = IF success \/ last THEN "append" ELSE @,
                    !.failed = IF ~success /\ last THEN @ \cup {rn.i} ELSE @]
    /\ UNCHANGED <<coreVars, logVars, campVars, pureVars, fnVars, ra, bus, px>>

\* the StepResult is appended and Iterations counted under the mutex
RunAppend ==
    /\ rn.pc = "append"
    /\ MutexFree
    /\ rn' = [append_result(rn, [StepName |-> rn.steps[rn.i].Name,
                                 Error |-> rn.stepErr])
                EXCEPT !.i = @ + 1, !.pc = "loop"]
    /\ UNCHANGED <<coreVars, logVars, campVars, pureVars, fnVars, ra, bus, px>>

\* after the loop: exec.Status = StatusCompleted under the mutex
RunComplete ==
    /\ rn.pc = "complete"
    /\ MutexFree
    /\ rn' = [rn EXCEPT !.pc = "done", !.Status = "completed"]
    /\ UNCHANGED <<coreVars, logVars, campVars, pureVars, fnVars, ra, bus, px>>

\* Runner.Stop(id) of a registered execution takes the mutex; an execution
\* that is not running is refused (the deferred Unlock runs at once)
StopLock ==
    /\ rn.pc # "idle"
    /\ rn.stop = "idle"
    /\ rn' = [rn EXCEPT !.stop = IF rn.Status # "running" THEN "refused" ELSE "locked"]
    /\ UNCHANGED <<coreVars, logVars, campVars, pureVars, fnVars, ra, bus, px>>

\* exec.KillSwitchUsed = true
StopKill ==
    /\ rn.stop = "locked"
    /\ rn' = [rn EXCEPT !.stop = "killed", !.KillSwitchUsed = TRUE]
    /\ UNCHANGED <<coreVars, logVars, campVars, pureVars, fnVars, ra, bus, px>>

\* exec.Status = StatusCanceled
StopStatus ==
    /\ rn.stop = "killed"
    /\ rn' = [rn EXCEPT !.stop = "written", !.Status = "canceled"]
    /\ UNCHANGED <<coreVars, logVars, campVars, pureVars, fnVars, ra, bus, px>>

\* cancel() of the execution's context, then Stop returns nil and the
\* deferred Unlock runs
StopCancel ==
    /\ rn.stop = "written"
    /\ rn' = [rn EXCEPT !.stop = "done", !.cancelled = TRUE]
    /\ UNCHANGED <<coreVars, logVars, campVars, pureVars, fnVars, ra, bus, px>>

\* a minute passes while the run goroutine is alive
RunnerTick ==
    /\ rn.pc \notin {"idle", "done"}
    /\ rn.ElapsedMinutes < MaxElapsed
    /\ rn' = [rn EXCEPT !.ElapsedMinutes = @ + 1]
    /\ UNCHANGED <<coreVars, logVars, campVars, pureVars, fnVars, ra, bus, px>>

\* a step of the run goroutine
RunStep ==
    \/ RunLoop \/ RunCancel \/ RunGuard \/ RunFail \/ RunSetStep
    \/ (\E ok \in BOOLEAN : RunDispatch(ok))
    \/ RunAppend \/ RunComplete

\* a step of Stop after it has taken the mutex
StopFinish == StopKill \/ StopStatus \/ StopCancel

RunnerNext ==
    \/ \E n \in 0..MaxSteps, targets \in RunnerTargets, g \in RunnerGuardrails :
          RunnerStart(n, targets, g)
    \/ RunLoop
    \/ RunCancel
    \/ RunGuard
    \/ RunFail
    \/ RunSetStep
    \/ \E ok \in BOOLEAN : RunDispatch(ok)
    \/ RunAppend
    \/ RunComplete
    \/ StopLock
    \/ StopKill
    \/ StopStatus
    \/ StopCancel
    \/ RunnerTick

\* the Go scheduler runs the goroutine started by Start, an adapter's Execute
\* returns, and a Stop that holds the mutex runs to its deferred Unlock
SpecRunner ==
    Init /\ [][RunnerNext]_vars /\ WF_vars(RunStep) /\ WF_vars(StopFinish)

-----------------------------------------------------------------------------
(* The Go reference cascade resolveAgent (routing parity test) next to the
   verified resolve_route, on one configuration and one input. *)

\* config.AgentBinding
GoBinding(agent, channel, account, peer, guild, team) ==
    [AgentID |-> agent,
     Match |-> [Channel |-> channel, AccountID |-> account, Peer |-> peer,
                GuildID |-> guild, TeamID |-> team]]

\* the binding the verified core is given for a config.AgentBinding: the
\* same fields under the core's names
binding_of_config(b) ==
    [ab_agent_id |-> b.AgentID,
     ab_match |-> [bm_channel |-> b.Match.Channel,
                   bm_account_id |-> b.Match.AccountID,
                   bm_peer |-> IF b.Match.Peer = None THEN None
                               ELSE Some([rp_kind |-> b.Match.Peer[1].Kind,
                                          rp_id |-> b.Match.Peer[1].ID]),
                   bm_guild_id |-> b.Match.GuildID,
                   bm_team_id |-> b.Match.TeamID]]

\* the first agent marked Default, else the first agent, else ""
findDefaultAgent(cfg) ==
    LET IsDefault(a) == a.Default
        d == FindOpt(IsDefault, cfg.Agents)
    IN  IF d # None THEN d[1].ID
        ELSE IF Len(cfg.Agents) > 0 THEN cfg.Agents[1].ID
        ELSE ""

\* levels 1, 3, 4, 5, 6 and 7 of the cascade, each a loop over cfg.Bindings
resolveAgent(cfg, channel, accountID, guildID, teamID, peerID) ==
    LET L1(b) == /\ b.Match.Channel = channel
                 /\ b.Match.Peer # None
                 /\ b.Match.Peer[1].ID = peerID
        L3(b) == b.Match.Channel = channel /\ b.Match.GuildID = guildID
        L4(b) == b.Match.Channel = channel /\ b.Match.TeamID = teamID
        L5(b) == /\ b.Match.Channel = channel
                 /\ b.Match.AccountID = accountID
                 /\ b.Match.Peer = None
                 /\ b.Match.GuildID = ""
                 /\ b.Match.TeamID = ""
        L6(b) == /\ b.Match.Channel = channel
                 /\ b.Match.AccountID = ""
                 /\ b.Match.Peer = None
                 /\ b.Match.GuildID = ""
                 /\ b.Match.TeamID = ""
        r1 == IF peerID # "" THEN FindOpt(L1, cfg.Bindings) ELSE None
        r3 == IF guildID # "" THEN FindOpt(L3, cfg.Bindings) ELSE None
        r4 == IF teamID # "" THEN FindOpt(L4, cfg.Bindings) ELSE None
        r5 == IF accountID # "" THEN FindOpt(L5, cfg.Bindings) ELSE None
        r6 == FindOpt(L6, cfg.Bindings)
    IN  IF r1 # None THEN r1[1].AgentID
        ELSE IF r3 # None THEN r3[1].AgentID
        ELSE IF r4 # None THEN r4[1].AgentID
        ELSE IF r5 # None THEN r5[1].AgentID
        ELSE IF r6 # None THEN r6[1].AgentID
        ELSE findDefaultAgent(cfg)

\* cfg.Bindings entries: a peer, a guild, a team, an account, an account
\* within a guild, the account wildcard, a bare channel, another channel
AgentBindings ==
    {GoBinding("P", "telegram", "", Some([Kind |-> "direct", ID |-> "u1"]), "", ""),
     GoBinding("G", "telegram", "", None, "guild1", ""),
     GoBinding("T", "telegram", "", None, "", "team1"),
     GoBinding("A", "telegram", "acct1", None, "", ""),
     GoBinding("AG", "telegram", "acct1", None, "guild1", ""),
     GoBinding("W", "telegram", "*", None, "", ""),
     GoBinding("C", "telegram", "", None, "", ""),
     GoBinding("X", "slack", "", None, "", "")}

\* cfg.Agents.List
AgentLists ==
    {<<>>,
     <<[ID |-> "main", Default |-> FALSE]>>,
     <<[ID |-> "other", Default |-> FALSE], [ID |-> "main", Default |-> TRUE]>>}

\* the input of the verified cascade that says what the Go arguments say: a
\* peer id is a direct peer, there is no parent peer
route_input_of(channel, accountID, guildID, teamID, peerID) ==
    [ri_channel |-> channel,
     ri_account_id |-> accountID,
     ri_peer |-> IF peerID = "" THEN None
                 ELSE Some([rp_kind |-> "direct", rp_id |-> peerID]),
     ri_parent_peer |-> None,
     ri_guild_id |-> guildID,
     ri_team_id |-> teamID]

\* both cascades are applied to the same configuration and input
ResolveAgent(cfg, channel, accountID, guildID, teamID, peerID) ==
    /\ ra = None
    /\ ra' = Some([cfg |-> cfg, channel |-> channel, accountID |-> accountID,
                   guildID |-> guildID, teamID |-> teamID, peerID |-> peerID,
                   agent |-> resolveAgent(cfg, channel, accountID, guildID,
                                          teamID, peerID),
                   route |-> resolve_route(
                                 [k \in 1..Len(cfg.Bindings) |->
                                     binding_of_config(cfg.Bindings[k])],
                                 findDefaultAgent(cfg), "DMScopeMain",
                                 route_input_of(channel, accountID, guildID,
                                                teamID, peerID))])
    /\ UNCHANGED <<coreVars, logVars, campVars, pureVars, fnVars, rn, bus, px>>

AgentNext ==
    /\ ra = None
    /\ \E bindings \in SeqsUpTo(AgentBindings, MaxBindings), agents \in AgentLists,
          accountID \in {"", "acct1"}, guildID \in {"", "guild1"},
          teamID \in {"", "team1"}, peerID \in {"", "u1"} :
          ResolveAgent([Bindings |-> bindings, Agents |-> agents], "telegram",
                       accountID, guildID, teamID, peerID)

SpecAgent == Init /\ [][AgentNext]_vars

-----------------------------------------------------------------------------
(* The Go MessageBus: publishers, consumers and callers of Close.  The load
   of closed and the select are two steps of a Publish call; the
   CompareAndSwap and close(done) are two steps of a Close call. *)

closed_Load_stale(b) == FALSE

\* mb.closed.Load()
closed_Load(b) == b.closed

\* the channel of a Publish call: inbound or outbound
BusQueue(b, q) == IF q = "inbound" THEN b.inbound ELSE b.outbound

\* the cases of the select in a Publish call that can proceed
PublishReady(b, q, ctxDone) ==
    (IF Len(BusQueue(b, q)) < MaxQueue THEN {"send"} ELSE {})
    \cup (IF b.done_closes > 0 THEN {"done"} ELSE {})
    \cup (IF ctxDone THEN {"ctx"} ELSE {})

\* PublishInbound / PublishOutbound is called with a context that is
\* cancelled or not: closed is loaded, and a closed bus ends the call.  after
\* records that some Close call had returned when this call started.
PublishStart(p, q, ctxDone) ==
    /\ bus.pubs[p].pc = "idle"
    /\ bus' = [bus EXCEPT !.pubs[p] =
                 [pc |-> IF closed_Load(bus) THEN "done" ELSE "select",
                  q |-> q, ctxDone |-> ctxDone, after |-> bus.close_returned,
                  sent |-> FALSE,
                  result |-> IF closed_Load(bus) THEN "ErrBusClosed" ELSE ""]]
    /\ UNCHANGED <<coreVars, logVars, campVars, pureVars, fnVars, rn, ra, px>>

\* the select of a Publish call takes one of the cases that can proceed
PublishSelect(p) ==
    /\ bus.pubs[p].pc = "select"
    /\ \E case \in PublishReady(bus, bus.pubs[p].q, bus.pubs[p].ctxDone) :
          bus' = [bus EXCEPT
                    !.inbound = IF case = "send" /\ bus.pubs[p].q = "inbound"
                                THEN Append(@, p) ELSE @,
                    !.outbound = IF case = "send" /\ bus.pubs[p].q = "outbound"
                                 THEN Append(@, p) ELSE @,
                    !.pubs[p].pc = "done",
                    !.pubs[p].sent = (case = "send"),
                    !.pubs[p].result = IF case = "send" THEN "nil"
                                       ELSE IF case = "done" THEN "ErrBusClosed"
                                       ELSE "context canceled"]
    /\ UNCHANGED <<coreVars, logVars, campVars, pureVars, fnVars, rn, ra, px>>

\* ConsumeInbound / SubscribeOutbound takes the message at the head of the
\* channel
BusConsume(q) ==
    /\ BusQueue(bus, q) # <<>>
    /\ bus' = [bus EXCEPT !.inbound = IF q = "inbound" THEN Tail(@) ELSE @,
                          !.outbound = IF q = "outbound" THEN Tail(@) ELSE @]
    /\ UNCHANGED <<coreVars, logVars, campVars, pureVars, fnVars, rn, ra, px>>

\* Close: mb.closed.CompareAndSwap(false, true); the call that loses returns
CloseSwap(c) ==
    /\ bus.closers[c] = "idle"
    /\ bus' = [bus EXCEPT !.closed = TRUE,
                          !.closers[c] = IF bus.closed THEN "returned" ELSE "won",
                          !.close_returned = IF bus.closed THEN TRUE ELSE @]
    /\ UNCHANGED <<coreVars, logVars, campVars, pureVars, fnVars, rn, ra, px>>

\* Close: the call that won the swap closes done and returns
CloseDone(c) ==
    /\ bus.closers[c] = "won"
    /\ bus' = [bus EXCEPT !.done_closes = @ + 1,
                          !.closers[c] = "returned",
                          !.close_returned = TRUE]
    /\ UNCHANGED <<coreVars, logVars, campVars, pureVars, fnVars, rn, ra, px>>

BusNext ==
    \/ \E p \in 1..MaxPublishers, q \in {"inbound", "outbound"}, ctxDone \in BOOLEAN :
          PublishStart(p, q, ctxDone)
    \/ \E p \in 1..MaxPublishers : PublishSelect(p)
    \/ \E q \in {"inbound", "outbound"} : BusConsume(q)
    \/ \E c \in 1..MaxClosers : CloseSwap(c)
    \/ \E c \in 1..MaxClosers : CloseDone(c)

SpecBus == Init /\ [][BusNext]_vars

-----------------------------------------------------------------------------
(* The Go CoreProxy: concurrent call invocations, the readResponses
   goroutine and the core process at the other end of the pipes.  A frame on
   stdout is <<id, kind, of>>: a response (kind "result" or "error") to the
   request with id of, or a callback request of the core (kind "request"),
   which readResponses parses as a response without result and error. *)

next_id_reused(p) == 1

\* p.nextID.Add(1)
next_id(p) == p.nextID + 1

\* the call whose channel is registered under id in p.callbacks, if any
callback_of(p, id) == {e[2] : e \in {x \in p.callbacks : x[1] = id}}

\* p.callbackMu is free: readResponses is not blocked in a send while it
\* holds the mutex
CallbackMuFree == px.reader # "blocked"

\* call: the id is taken from the counter
CallAdd(c) ==
    /\ px.calls[c].pc = "idle"
    /\ px' = [px EXCEPT !.nextID = next_id(px),
                        !.calls[c].pc = "send",
                        !.calls[c].id = next_id(px)]
    /\ UNCHANGED <<coreVars, logVars, campVars, pureVars, fnVars, rn, ra, bus>>

\* call: p.callbacks[id] = ch under callbackMu, then sendRequest writes the
\* frame to the core's stdin; the write fails when the pipe is closed
CallSend(c) ==
    /\ px.calls[c].pc = "send"
    /\ CallbackMuFree
    /\ LET registered == {e \in px.callbacks : e[1] # px.calls[c].id}
                         \cup {<<px.calls[c].id, c>>}
       IN  px' = IF px.core = "exited"
                 THEN [px EXCEPT !.callbacks = registered,
                                 !.calls[c].pc = "defer",
                                 !.calls[c].err = "failed to write"]
                 ELSE [px EXCEPT !.callbacks = registered,
                                 !.calls[c].pc = "wait",
                                 !.stdin = Append(@, [id |-> px.calls[c].id,
                                                      callback |-> FALSE])]
    /\ UNCHANGED <<coreVars, logVars, campVars, pureVars, fnVars, rn, ra, bus>>

\* call: the select takes the value on ch, or the zero value of a closed ch
CallWait(c) ==
    /\ px.calls[c].pc = "wait"
    /\ px.calls[c].buf # <<>>
    /\ px' = [px EXCEPT !.calls[c].pc = "defer",
                        !.calls[c].got = Some(Head(px.calls[c].buf)),
                        !.calls[c].buf = IF px.calls[c].closed THEN @ ELSE <<>>]
    /\ UNCHANGED <<coreVars, logVars, campVars, pureVars, fnVars, rn, ra, bus>>

\* call: the caller's context is cancelled and the select takes ctx.Done()
CallCancel(c) ==
    /\ px.calls[c].pc = "wait"
    /\ px' = [px EXCEPT !.calls[c].pc = "defer",
                        !.calls[c].err = "context canceled"]
    /\ UNCHANGED <<coreVars, logVars, campVars, pureVars, fnVars, rn, ra, bus>>

\* call: the deferred delete(p.callbacks, id) under callbackMu, and return;
\* nothing refers to ch any more
CallDefer(c) ==
    /\ px.calls[c].pc = "defer"
    /\ CallbackMuFree
    /\ px' = [px EXCEPT !.callbacks = {e \in @ : e[1] # px.calls[c].id},
                        !.calls[c].pc = "returned",
                        !.calls[c].buf = <<>>,
                        !.calls[c].closed = FALSE]
    /\ UNCHANGED <<coreVars, logVars, campVars, pureVars, fnVars, rn, ra, bus>>

\* the core, handling the request at the head of its stdin, writes a callback
\* request (llm_call, execute_tool) with its next callback id and waits for
\* the answer
CoreCallback ==
    /\ px.core = "running"
    /\ px.stdin # <<>>
    /\ ~Head(px.stdin).callback
    /\ px' = [px EXCEPT !.stdin[1].callback = TRUE,
                        !.next_callback_id = @ + 1,
                        !.stdout = Append(@, <<px.next_callback_id, "request", 0>>)]
    /\ UNCHANGED <<coreVars, logVars, campVars, pureVars, fnVars, rn, ra, bus>>

\* the core takes the next message on its stdin as the answer to its
\* callback: the proxy writes nothing but requests, so it is the next request
CoreTakeAnswer ==
    /\ px.core = "running"
    /\ Len(px.stdin) >= 2
    /\ Head(px.stdin).callback
    /\ px' = [px EXCEPT !.stdin = <<[Head(px.stdin) EXCEPT !.callback = FALSE]>>
                                  \o SubSeq(px.stdin, 3, Len(px.stdin))]
    /\ UNCHANGED <<coreVars, logVars, campVars, pureVars, fnVars, rn, ra, bus>>

\* the core answers the request at the head of its stdin with a result or
\* with a JSON-RPC error, under the request's id
CoreAnswer(kind) ==
    /\ px.core = "running"
    /\ px.stdin # <<>>
    /\ ~Head(px.stdin).callback
    /\ px' = [px EXCEPT !.stdin = Tail(@),
                        !.stdout = Append(@, <<Head(px.stdin).id, kind,
                                               Head(px.stdin).id>>)]
    /\ UNCHANGED <<coreVars, logVars, campVars, pureVars, fnVars, rn, ra, bus>>

\* the core process ends (Stop closes its stdin, or it exits by itself)
CoreExit ==
    /\ px.core = "running"
    /\ px' = [px EXCEPT !.core = "exited"]
    /\ UNCHANGED <<coreVars, logVars, campVars, pureVars, fnVars, rn, ra, bus>>

\* readResponses holds no frame
NoFrame == <<0, "", 0>>

\* readResponses returns: p.running is false or the read fails, the core's
\* output having ended
ReaderStop ==
    /\ px.reader = "reading"
    /\ px.core = "exited"
    /\ px' = [px EXCEPT !.reader = "stopped"]
    /\ UNCHANGED <<coreVars, logVars, campVars, pureVars, fnVars, rn, ra, bus>>

\* what the dispatch under callbackMu does with a frame: no entry for its id
\* and it is dropped; an error closes the channel (a receive then yields the
\* zero value; the frame is kept to tell where it came from); anything else
\* is sent on the channel, which blocks while the channel's one slot is
\* taken.  Closing or sending on a closed channel panics.
dispatch(p, frame) ==
    LET chans == callback_of(p, frame[1])
        c == CHOOSE x \in chans : TRUE
    IN  IF chans = {} THEN [p EXCEPT !.reader = "reading", !.frame = NoFrame]
        ELSE IF p.calls[c].closed
        THEN [p EXCEPT !.reader = "panicked", !.frame = NoFrame]
        ELSE IF frame[2] = "error"
        THEN [p EXCEPT !.reader = "reading", !.frame = NoFrame,
                       !.calls[c].closed = TRUE,
                       !.calls[c].buf = @ \o <<frame>>]
        ELSE IF p.calls[c].buf = <<>>
        THEN [p EXCEPT !.reader = "reading", !.frame = NoFrame,
                       !.calls[c].buf = <<frame>>]
        ELSE [p EXCEPT !.reader = "blocked", !.frame = frame]

\* readResponses reads and parses the next frame and dispatches it
ReaderRead ==
    /\ px.reader = "reading"
    /\ px.stdout # <<>>
    /\ px' = dispatch([px EXCEPT !.stdout = Tail(@)], Head(px.stdout))
    /\ UNCHANGED <<coreVars, logVars, campVars, pureVars, fnVars, rn, ra, bus>>

\* the send readResponses is blocked in goes through
ReaderUnblock ==
    /\ px.reader = "blocked"
    /\ px.calls[CHOOSE x \in callback_of(px, px.frame[1]) : TRUE].buf = <<>>
    /\ px' = dispatch(px, px.frame)
    /\ UNCHANGED <<coreVars, logVars, campVars, pureVars, fnVars, rn, ra, bus>>

\* a step of the readResponses goroutine
ReaderStep == ReaderRead \/ ReaderStop \/ ReaderUnblock

ProxyNext ==
    \/ \E c \in 1..MaxCalls : CallAdd(c)
    \/ \E c \in 1..MaxCalls : CallSend(c)
    \/ \E c \in 1..MaxCalls : CallWait(c)
    \/ \E c \in 1..MaxCalls : CallCancel(c)
    \/ \E c \in 1..MaxCalls : CallDefer(c)
    \/ CoreCallback
    \/ CoreTakeAnswer
    \/ \E kind \in {"result", "error"} : CoreAnswer(kind)
    \/ CoreExit
    \/ ReaderRead
    \/ ReaderStop
    \/ ReaderUnblock

\* the Go scheduler runs every goroutine that can take a step: each call and
\* readResponses.  Nothing obliges the core to answer or the caller to
\* cancel.
SpecProxy ==
    /\ Init
    /\ [][ProxyNext]_vars
    /\ \A c \in 1..MaxCalls :
          WF_vars(CallAdd(c) \/ CallSend(c) \/ CallWait(c) \/ CallDefer(c))
    /\ WF_vars(ReaderStep)

-----------------------------------------------------------------------------
(* Properties of the STDIO runtime. *)

\* the request in hand is a process_message request
InProcessMessage == req.method = "process_message"

\* process_message has returned and its answer is the last line written
ProcessMessageReturned == InProcessMessage /\ pc = "idle" /\ hist.returned

\* <<policy, grants>> the authorization step could be given; the runtime
\* passes the first
C1_AuthInputs ==
    {<< <<>>, <<>> >>,
     << <<[pe_tool_name |-> "web_search", pe_level |-> "AlwaysAllowed"],
          [pe_tool_name |-> "exec_command", pe_level |-> "AlwaysDenied"]>>,
        <<>> >>,
     << <<[pe_tool_name |-> "exec_command", pe_level |-> "RequiresGrant"],
          [pe_tool_name |-> "web_search", pe_level |-> "AlwaysDenied"]>>,
        <<[g_tool_name |-> "exec_command", g_agent_id |-> "main", g_issued_at |-> 0],
          [g_tool_name |-> "exec_command", g_agent_id |-> "B", g_issued_at |-> 0]>> >>,
     << <<>>,
        <<[g_tool_name |-> "exec_command", g_agent_id |-> "B", g_issued_at |-> 0],
          [g_tool_name |-> "web_search", g_agent_id |-> "other", g_issued_at |-> 0]>> >>}

RECURSIVE C1_SeqOf(_)
C1_SeqOf(S) ==
    IF S = {} THEN <<>>
    ELSE LET x == CHOOSE y \in S : TRUE IN <<x>> \o C1_SeqOf(S \ {x})

\* the distinct tool calls decided so far in the request in hand
C1_Calls == C1_SeqOf({hist.decisions[j][1] : j \in 1..Len(hist.decisions)})

\* the decisions on those calls under a policy and grants
C1_Decisions(policy, grants) ==
    authorize_tool_calls(C1_Calls, ls.ls_agent_id, policy, grants, now)

\* the calls of executed that have an Authorized decision in decisions with a
\* grant for the call's tool and the request's agent, and none that is Denied
C1_OnlyAuthorized(executed, decisions) ==
    /\ \A i \in 1..Len(executed) :
          \E j \in 1..Len(decisions) :
              /\ decisions[j][1] = executed[i]
              /\ decisions[j][2].kind = "Authorized"
              /\ decisions[j][2].grant.g_tool_name = executed[i].tc_name
              /\ decisions[j][2].grant.g_agent_id = ls.ls_agent_id
    /\ \A j \in 1..Len(decisions) :
          decisions[j][2].kind = "Denied" =>
              \A i \in 1..Len(executed) : executed[i] # decisions[j][1]

\* C1: every execute_tool callback issued for a tool call is preceded, in the
\* same request, by an authorization decision Authorized(g) for that call whose
\* grant names the call's tool and the request's agent, and no execute_tool is
\* issued for a call whose decision is Denied: in the requests the runtime
\* serves, and for the calls the execution fold is handed (filter_authorized
\* of the decisions) under any policy and grants.
C1_ExecOnlyAuthorized ==
    InProcessMessage =>
        /\ C1_OnlyAuthorized(hist.execs, hist.decisions)
        /\ (pc = "await" /\ pending[1].method = "execute_tool") =>
              /\ hist.execs # <<>>
              /\ pending[1].params.tool_name = hist.execs[Len(hist.execs)].tc_name
        /\ \A a \in C1_AuthInputs :
              LET decisions == C1_Decisions(a[1], a[2])
              IN  C1_OnlyAuthorized(filter_authorized(decisions), decisions)

\* a request whose tool calls were decided, Denied by the runtime, and that
\* went on to return; under another policy and grants one of these calls is
\* authorized and handed to the fold and the other is denied
C1_Witness ==
    /\ ProcessMessageReturned
    /\ Len(hist.decisions) >= 2
    /\ \E j \in 1..Len(hist.decisions) : hist.decisions[j][2].kind = "Denied"
    /\ hist.execs = <<>>
    /\ \E a \in C1_AuthInputs :
          /\ Len(filter_authorized(C1_Decisions(a[1], a[2]))) >= 1
          /\ \E j \in 1..Len(C1_Calls) :
                C1_Decisions(a[1], a[2])[j][2].kind = "Denied"

\* the iteration budget of the request in hand, as the claim states it
C4_Limit ==
    IF req.params.pm_max_iterations > 0 THEN req.params.pm_max_iterations ELSE 10

\* what is left to do of a request blocked in a callback: rounds, then the
\* phase of the round (the llm_call comes before the round's tool calls),
\* then the authorized calls not yet executed
C4_Measure == <<fuel, IF pending # None /\ pending[1].method = "llm_call" THEN 1 ELSE 0,
                Len(todo)>>

C4_LexLess(a, b) ==
    \/ a[1] < b[1]
    \/ a[1] = b[1] /\ a[2] < b[2]
    \/ a[1] = b[1] /\ a[2] = b[2] /\ a[3] < b[3]

\* C4: process_message issues at most max_iterations llm_call callbacks (at
\* most 10 when max_iterations is 0 or negative), and it terminates once its
\* callbacks are answered: every answer read either ends the request or
\* leaves it blocked with strictly less left to do, a measure bounded below.
C4_Terminates ==
    /\ [](InProcessMessage => hist.llm_calls <= C4_Limit)
    /\ [](pc = "await" => fuel > 0)
    /\ [][(pc = "await" /\ pending' # pending) =>
             (pc' = "idle" \/ C4_LexLess(C4_Measure', C4_Measure))]_vars

\* a request given a non-positive max_iterations that used all ten rounds
C4_Witness ==
    /\ ProcessMessageReturned
    /\ req.params.pm_max_iterations <= 0
    /\ hist.llm_calls = 10

\* C5: at return of process_message the session stored under the request's
\* session key is the session of the final loop state, on every exit path.
C5_SessionSavedOnEveryExit ==
    ProcessMessageReturned =>
        /\ ls.ls_session.s_key \in DOMAIN sessions
        /\ sessions[ls.ls_session.s_key] = ls.ls_session

\* C6: a pending callback with id n is completed only by a stdin message that
\* is a response (result or error) whose id is n.
C6_CallbackCompletedByItsId ==
    \A r \in hist.reads : r.kind \in {"response", "error"} /\ r.id = r.want

\* the contents an error outcome naming the message "boom" may return
C7_ErrorContents ==
    {"boom", "error: boom", "error:boom", "the agent encountered an error: boom"}

\* C7: a JSON-RPC error answer to a callback ends the request with the error
\* outcome: the content returned is the error sentinel naming the message and
\* the audit log's last entry records the error; the reply is a normal result.
C7_ErrorAnswerEndsWithError ==
    (InProcessMessage /\ \E r \in hist.reads : r.kind = "error") =>
        /\ ProcessMessageReturned
        /\ written.result.content \in C7_ErrorContents
        /\ LET log == written.result.audit_log
           IN  /\ log[Len(log)].ae_event.tag = "MessageProcessed"
               /\ log[Len(log)].ae_event.payload \in C7_ErrorContents

\* the guardrails the request carried on the wire
RequestGuardrails ==
    LET g == assoc_field("guardrails", req.raw)
    IN  [gr_max_duration |-> int_of_json(assoc_field("max_duration_minutes", g)),
         gr_budget_cents |-> int_of_json(assoc_field("budget_cents", g)),
         gr_max_tool_calls |-> int_of_json(assoc_field("max_tool_calls", g)),
         gr_max_iterations |-> int_of_json(assoc_field("max_iterations", g))]

\* the campaign state of the request in hand: rounds done, tools executed
RequestCampaign ==
    [init_state EXCEPT !.cs_iterations = ls.ls_iteration,
                       !.cs_tool_calls = Len(hist.execs)]

\* C8: should_halt is evaluated before each iteration: no llm_call is pending
\* while a halt condition of the request's guardrails holds, and a request
\* that returns with a halt condition holding carries halt_reason.
C8_NoLLMCallOnceHalted ==
    (InProcessMessage /\ should_halt(RequestGuardrails, RequestCampaign) # None) =>
        /\ ~(pc = "await" /\ pending[1].method = "llm_call")
        /\ ProcessMessageReturned => "halt_reason" \in DOMAIN written.result


-----------------------------------------------------------------------------
(* Properties of the audit log. *)

\* C2: a log built from the empty log by appends is chain-valid: entry i
\* (counted from 0) has sequence i, entry 0 has prev_hash "", and every later
\* entry has prev_hash equal to the hash of its predecessor.
C2_AppendsKeepChain ==
    /\ \A i \in 1..Len(alog) :
          /\ alog[i].ae_sequence = i - 1
          /\ alog[i].ae_prev_hash = IF i = 1 THEN "" ELSE hash_entry(alog[i - 1])
    /\ chain_valid(alog)

\* a full log whose entries came from different append operations
C2_Witness ==
    /\ Len(alog) = MaxLogLen
    /\ alog[1].ae_event.tag = "RouteResolved"
    /\ alog[2].ae_event.tag = "ToolDenied"
    /\ alog[Len(alog)].ae_event.tag = "MessageProcessed"
    /\ alog[2].ae_timestamp # alog[1].ae_timestamp

ChainHolds(log) ==
    \A i \in 1..Len(log) :
        /\ log[i].ae_sequence = i - 1
        /\ log[i].ae_prev_hash = IF i = 1 THEN "" ELSE hash_entry(log[i - 1])

\* The same of the logs of the runtime: the log of the loop state, the log the
\* execution fold accumulates, and the audit_log process_message returns.
RuntimeLogsChainValid ==
    /\ ChainHolds(ls.ls_audit_log)
    /\ ChainHolds(log_acc)
    /\ ProcessMessageReturned => ChainHolds(written.result.audit_log)

\* the fields of an entry one may change, each to a value it did not have
C3_Fields ==
    {"sequence", "timestamp", "event_tag", "event_payload", "agent_id",
     "session_key", "prev_hash", "request_id"}

C3_Change(e, field) ==
    CASE field = "sequence" -> [e EXCEPT !.ae_sequence = @ + 1]
      [] field = "timestamp" -> [e EXCEPT !.ae_timestamp = @ + 1]
      [] field = "event_tag" ->
            [e EXCEPT !.ae_event.tag = IF @ = "ToolDenied" THEN "ToolAuthorized"
                                       ELSE "ToolDenied"]
      [] field = "event_payload" -> [e EXCEPT !.ae_event.payload = @ \o "x"]
      [] field = "agent_id" -> [e EXCEPT !.ae_agent_id = @ \o "x"]
      [] field = "session_key" -> [e EXCEPT !.ae_session_key = @ \o "x"]
      [] field = "prev_hash" -> [e EXCEPT !.ae_prev_hash = @ \o "x"]
      [] field = "request_id" -> [e EXCEPT !.ae_request_id = @ \o "x"]

\* C3: changing any single field of any one entry of a log built by appends,
\* the other entries untouched, makes the chain validator reject the log.
C3_EveryChangeDetected ==
    \A i \in 1..Len(alog) : \A field \in C3_Fields :
        ~chain_valid([alog EXCEPT ![i] = C3_Change(@, field)])

-----------------------------------------------------------------------------
(* Properties of the campaign guardrails. *)

CampaignRunning == ~cs.cs_killed /\ ~cs.cs_completed

BelowEveryLimit ==
    /\ cs.cs_spent_cents < gr.gr_budget_cents
    /\ cs.cs_elapsed_minutes < gr.gr_max_duration
    /\ cs.cs_tool_calls < gr.gr_max_tool_calls
    /\ cs.cs_iterations < gr.gr_max_iterations

AllLimitsZero ==
    /\ gr.gr_budget_cents = 0
    /\ gr.gr_max_duration = 0
    /\ gr.gr_max_tool_calls = 0
    /\ gr.gr_max_iterations = 0

\* C9 (as the claim states it): with all four limits 0, kill switch not
\* activated and not completed, should_halt returns no halt reason on the
\* initial state and on every state reached by record_tool_call and
\* record_iteration.
C9_ZeroMeansUnbounded ==
    (AllLimitsZero /\ CampaignRunning) => should_halt(gr, cs) = None

\* C9 (amended): a limit of 0 is a limit of zero.  On the initial state and on
\* every state reached by record_tool_call and record_iteration, kill switch
\* not activated and not completed, should_halt returns no halt reason exactly
\* when every counter is strictly below its limit; with a limit of 0 it halts.
C9_ZeroIsALimit ==
    CampaignRunning =>
        /\ (should_halt(gr, cs) = None) <=> BelowEveryLimit
        /\ AllLimitsZero => should_halt(gr, cs) = Some("BudgetExhausted")

\* a campaign with positive limits that recorded a tool call and an iteration
\* and still runs
C9_Witness ==
    /\ CampaignRunning
    /\ cs.cs_tool_calls > 0
    /\ cs.cs_iterations > 0
    /\ cs.cs_spent_cents > 0
    /\ should_halt(gr, cs) = None

\* the first applicable reason in the order the claim fixes
C10_FirstApplicable(killed, completed, spent, elapsed, tool_calls, iterations) ==
    IF killed THEN "killed"
    ELSE IF completed THEN "completed"
    ELSE IF spent >= gr.gr_budget_cents THEN "budget"
    ELSE IF elapsed >= gr.gr_max_duration THEN "duration"
    ELSE IF tool_calls >= gr.gr_max_tool_calls THEN "tool_calls"
    ELSE IF iterations >= gr.gr_max_iterations THEN "iterations"
    ELSE "none"

C10_OfHaltReason(r) ==
    CASE r = None -> "none"
      [] r = Some("KillSwitchActivated") -> "killed"
      [] r = Some("CampaignCompleted") -> "completed"
      [] r = Some("BudgetExhausted") -> "budget"
      [] r = Some("DurationExceeded") -> "duration"
      [] r = Some("ToolCallLimitReached") -> "tool_calls"
      [] r = Some("IterationLimitReached") -> "iterations"

C10_OfGoReason(r) ==
    CASE r = "" -> "none"
      [] r = "kill_switch_activated" -> "killed"
      [] r = "budget_exhausted" -> "budget"
      [] r = "duration_exceeded" -> "duration"
      [] r = "tool_call_limit" -> "tool_calls"
      [] r = "iteration_limit" -> "iterations"

\* C10: should_halt and checkGuardrails alike return the first applicable
\* reason in the order killed, completed, budget, duration, tool-call limit,
\* iteration limit, and none otherwise; a state both over budget and over
\* duration is reported as budget exhausted by both.
C10_SameFixedOrder ==
    /\ C10_OfHaltReason(should_halt(gr, cs)) =
          C10_FirstApplicable(cs.cs_killed, cs.cs_completed, cs.cs_spent_cents,
                              cs.cs_elapsed_minutes, cs.cs_tool_calls, cs.cs_iterations)
    /\ C10_OfGoReason(checkGuardrails(exec, gr)) =
          C10_FirstApplicable(exec.KillSwitchUsed, exec.Completed, exec.SpentCents,
                              exec.ElapsedMinutes, exec.ToolCalls, exec.Iterations)

-----------------------------------------------------------------------------
(* Properties of the read-only guardrail. *)

C11_WriteTools == {"write_file", "exec_command", "delete_file"}

C11_ToolNames == C11_WriteTools \cup {"web_search", "read_file"}

\* C11: with read_only set every tool call named write_file, exec_command or
\* delete_file is refused, whatever else holds of the execution; for a tool
\* of another name the answer is the same with read_only set and not set.
C11_ReadOnlyDeniesWriteTools ==
    \A name \in C11_ToolNames :
        /\ (gr.gr_read_only /\ name \in C11_WriteTools) =>
              ~CanExecuteTool(WithDefinition(exec, gr), name)
        /\ name \notin C11_WriteTools =>
              CanExecuteTool(WithDefinition(exec, gr), name)
                = CanExecuteTool(WithDefinition(exec, [gr EXCEPT !.gr_read_only = ~@]),
                                 name)

\* a running read-only campaign under its tool-call limit: web_search may
\* run, exec_command may not
C11_Witness ==
    /\ gr.gr_read_only
    /\ ~exec.KillSwitchUsed
    /\ exec.ToolCalls > 0
    /\ exec.ToolCalls < gr.gr_max_tool_calls
    /\ CanExecuteTool(WithDefinition(exec, gr), "web_search")
    /\ ~CanExecuteTool(WithDefinition(exec, gr), "exec_command")

\* The same of the runtime: in a request whose guardrails set read_only, every
\* decided call of such a name is Denied and no execute_tool is issued for it.
RuntimeReadOnlyDenied ==
    (InProcessMessage
       /\ assoc_field("read_only", assoc_field("guardrails", req.raw)).v = TRUE) =>
        /\ \A j \in 1..Len(hist.decisions) :
              hist.decisions[j][1].tc_name \in C11_WriteTools =>
                  hist.decisions[j][2].kind = "Denied"
        /\ \A i \in 1..Len(hist.execs) : hist.execs[i].tc_name \notin C11_WriteTools

-----------------------------------------------------------------------------
(* Properties of routing. *)

\* the levels of the cascade in order, and the reason each reports
RouteLevels ==
    <<"MatchedByPeer", "MatchedByParentPeer", "MatchedByGuild", "MatchedByTeam",
      "MatchedByAccount", "MatchedByChannelWildcard">>

\* binding b satisfies the predicate of level k for the input
RouteLevelHolds(k, b, input) ==
    CASE k = 1 -> matches_peer(b, input)
      [] k = 2 -> matches_parent_peer(b, input)
      [] k = 3 -> matches_guild(b, input)
      [] k = 4 -> matches_team(b, input)
      [] k = 5 -> matches_account(b, input)
      [] k = 6 -> matches_channel_wildcard(b, input)

\* the levels some binding of the call satisfies
RouteLevelsHit ==
    {k \in 1..6 : \E i \in 1..Len(rt[1].bindings) :
                      RouteLevelHolds(k, rt[1].bindings[i], rt[1].input)}

\* C12: if k is the first level, in the order Peer, ParentPeer, Guild, Team,
\* Account, ChannelWildcard, whose predicate some binding satisfies,
\* resolve_route returns the agent of the first binding in list order that
\* satisfies level k, with matched_by = k, wherever bindings that match only a
\* later level stand in the list.
C12_FirstLevelFirstBinding ==
    (rt # None /\ RouteLevelsHit # {}) =>
        LET k == Min(RouteLevelsHit)
            i == Min({j \in 1..Len(rt[1].bindings) :
                         RouteLevelHolds(k, rt[1].bindings[j], rt[1].input)})
        IN  /\ rt[1].route.rr_agent_id = rt[1].bindings[i].ab_agent_id
            /\ rt[1].route.rr_matched_by = RouteLevels[k]

\* a peer binding listed after a channel-only binding that also matches wins
C12_Witness ==
    /\ rt # None
    /\ Len(rt[1].bindings) = 2
    /\ matches_channel_wildcard(rt[1].bindings[1], rt[1].input)
    /\ matches_peer(rt[1].bindings[2], rt[1].input)
    /\ rt[1].route.rr_matched_by = "MatchedByPeer"
    /\ rt[1].route.rr_agent_id = "P"

\* C13: resolve_route returns a route for every input and bindings list; when
\* no binding satisfies any of the six levels the route has the default agent
\* and matched_by Default; channel and account_id are copied from the input.
C13_DefaultFallback ==
    rt # None =>
        /\ DOMAIN rt[1].route = {"rr_agent_id", "rr_channel", "rr_account_id",
                                 "rr_session_key", "rr_main_session_key",
                                 "rr_matched_by"}
        /\ rt[1].route.rr_channel = rt[1].input.ri_channel
        /\ rt[1].route.rr_account_id = rt[1].input.ri_account_id
        /\ RouteLevelsHit = {} =>
              /\ rt[1].route.rr_agent_id = rt[1].default_id
              /\ rt[1].route.rr_matched_by = "MatchedByDefault"
        /\ rt[1].route.rr_matched_by = "MatchedByDefault" => RouteLevelsHit = {}

\* a non-empty bindings list none of which matches: the default agent
C13_Witness ==
    /\ rt # None
    /\ Len(rt[1].bindings) = MaxBindings
    /\ rt[1].input.ri_account_id = ""
    /\ RouteLevelsHit = {}
    /\ rt[1].route.rr_matched_by = "MatchedByDefault"
    /\ rt[1].route.rr_agent_id = "main"

\* the session key the claim gives for an agent, a scope and an input
C14_ExpectedKey(agent, scope, input) ==
    IF input.ri_peer = None THEN "agent:" \o agent \o ":main"
    ELSE LET peer == input.ri_peer[1]
         IN  IF peer.rp_kind = "direct"
             THEN CASE scope = "DMScopeMain" -> "agent:" \o agent \o ":main"
                    [] scope = "DMScopePerPeer" ->
                          "agent:" \o agent \o ":direct:" \o peer.rp_id
                    [] scope = "DMScopePerChannelPeer" ->
                          "agent:" \o agent \o ":" \o input.ri_channel \o ":direct:"
                            \o peer.rp_id
                    [] scope = "DMScopePerAccountChannelPeer" ->
                          "agent:" \o agent \o ":" \o input.ri_account_id \o ":"
                            \o input.ri_channel \o ":direct:" \o peer.rp_id
             ELSE "agent:" \o agent \o ":" \o input.ri_channel \o ":group:" \o peer.rp_id

\* C14: the session key of a resolved route is the one fixed by the resolved
\* agent, the scope and the input (main without a peer, the scope's direct
\* key for a direct peer, the group key for a peer of any other kind whatever
\* the scope), and main_session_key is always agent:{agent}:main.
C14_SessionKeyShape ==
    rt # None =>
        /\ rt[1].route.rr_session_key =
              C14_ExpectedKey(rt[1].route.rr_agent_id, rt[1].scope, rt[1].input)
        /\ rt[1].route.rr_main_session_key =
              "agent:" \o rt[1].route.rr_agent_id \o ":main"

\* a direct peer under the per-peer scope, routed to a bound agent
C14_Witness ==
    /\ rt # None
    /\ rt[1].scope = "DMScopePerPeer"
    /\ rt[1].input.ri_peer = Some(Peer("direct", "u1"))
    /\ rt[1].route.rr_agent_id = "P"
    /\ rt[1].route.rr_session_key = "agent:P:direct:u1"

-----------------------------------------------------------------------------
(* Properties of tool authorization. *)

\* positions of the policy entries naming the tool of the call
AuthEntries == {i \in 1..Len(au[1].policy) : au[1].policy[i].pe_tool_name = au[1].tool_name}

\* the level of the first policy entry naming the tool, RequiresGrant without one
AuthLevel ==
    IF AuthEntries = {} THEN "RequiresGrant" ELSE au[1].policy[Min(AuthEntries)].pe_level

\* positions of the grants for the tool and the agent of the call
AuthGrants ==
    {i \in 1..Len(au[1].grants) :
        /\ au[1].grants[i].g_tool_name = au[1].tool_name
        /\ au[1].grants[i].g_agent_id = au[1].agent_id}

\* C15: if the first policy entry naming the tool has level AlwaysDenied,
\* authorize_tool returns Denied, also when grants holds a grant for that
\* tool and agent.
C15_AlwaysDeniedDenies ==
    (au # None /\ AuthEntries # {} /\ AuthLevel = "AlwaysDenied") =>
        au[1].decision.kind = "Denied"

\* an always-denied tool for which the agent holds a grant
C15_Witness ==
    /\ au # None
    /\ AuthEntries # {}
    /\ AuthLevel = "AlwaysDenied"
    /\ AuthGrants # {}
    /\ au[1].decision.kind = "Denied"

\* C16: if the first policy entry naming the tool has level AlwaysAllowed,
\* authorize_tool returns Authorized with a fresh grant for the tool and the
\* agent issued at the timestamp, whether or not grants is empty.
C16_AlwaysAllowedFreshGrant ==
    (au # None /\ AuthEntries # {} /\ AuthLevel = "AlwaysAllowed") =>
        /\ au[1].decision.kind = "Authorized"
        /\ au[1].decision.grant = [g_tool_name |-> au[1].tool_name,
                                   g_agent_id |-> au[1].agent_id,
                                   g_issued_at |-> au[1].timestamp]

\* an always-allowed tool for which the agent also holds an older grant
C16_Witness ==
    /\ au # None
    /\ AuthEntries # {}
    /\ AuthLevel = "AlwaysAllowed"
    /\ AuthGrants # {}
    /\ au[1].decision.kind = "Authorized"
    /\ au[1].decision.grant.g_issued_at = au[1].timestamp

\* C17: a tool without a policy entry is RequiresGrant; for a RequiresGrant
\* tool authorize_tool returns Authorized(g) iff grants holds a grant of the
\* same tool and agent, g being the first such in list order; with several
\* policy entries for the tool the first decides the level.
C17_RequiresGrantNeedsGrant ==
    au # None =>
        /\ AuthLevel = "RequiresGrant" =>
              /\ (au[1].decision.kind = "Authorized") <=> (AuthGrants # {})
              /\ AuthGrants # {} =>
                    au[1].decision.grant = au[1].grants[Min(AuthGrants)]
        /\ AuthLevel = "AlwaysDenied" => au[1].decision.kind = "Denied"
        /\ AuthLevel = "AlwaysAllowed" => au[1].decision.kind = "Authorized"

\* a tool without a policy entry, a grant of another agent listed before two
\* grants of the caller: the first of the caller's grants is the proof
C17_Witness ==
    /\ au # None
    /\ au[1].policy # <<>>
    /\ AuthEntries = {}
    /\ Len(au[1].grants) = 2
    /\ au[1].grants[1].g_agent_id # au[1].agent_id
    /\ AuthGrants = {2}
    /\ au[1].decision = Authorized(au[1].grants[2])

-----------------------------------------------------------------------------
(* Properties of the audit trail of one request. *)

\* the event tags of a log, in order
LogTags(log) == [i \in 1..Len(log) |-> log[i].ae_event.tag]

\* the request in hand allows three rounds, and each of its three llm_call
\* answers asked for one tool call
ThreeRoundsOfOneCall ==
    /\ ProcessMessageReturned
    /\ req.params.pm_max_iterations = 3
    /\ hist.llm_calls = 3
    /\ Len(hist.decisions) = 3

\* C18: with max_iterations = 3 and an llm_call that always answers with one
\* tool call, process_message does exactly 3 iterations, returns the
\* fuel-exhausted sentinel, and its audit log has exactly 11 entries:
\* route_resolved, three times (llm_call_completed, tool_authorized,
\* tool_executed), message_processed.
C18_ElevenEntries ==
    ThreeRoundsOfOneCall =>
        /\ ls.ls_iteration = 3
        /\ written.result.content = "I've reached the maximum number of iterations."
        /\ LogTags(written.result.audit_log) =
              <<"RouteResolved",
                "LLMCallCompleted", "ToolAuthorized", "ToolExecuted",
                "LLMCallCompleted", "ToolAuthorized", "ToolExecuted",
                "LLMCallCompleted", "ToolAuthorized", "ToolExecuted",
                "MessageProcessed">>

\* what the runtime returns in that case: the three calls are denied
EightEntries ==
    ThreeRoundsOfOneCall =>
        /\ ls.ls_iteration = 3
        /\ written.result.content = "I've reached the maximum number of iterations."
        /\ LogTags(written.result.audit_log) =
              <<"RouteResolved",
                "LLMCallCompleted", "ToolDenied",
                "LLMCallCompleted", "ToolDenied",
                "LLMCallCompleted", "ToolDenied",
                "MessageProcessed">>

\* C19: the audit log of every process_message result starts with
\* RouteResolved and has exactly one MessageProcessed entry, its last one; the
\* log the loop carries starts with RouteResolved and has no MessageProcessed
\* entry, so nothing is ever appended after one.
C19_RouteFirstProcessedLast ==
    InProcessMessage =>
        /\ ls.ls_audit_log # <<>>
        /\ ls.ls_audit_log[1].ae_event.tag = "RouteResolved"
        /\ \A i \in 1..Len(ls.ls_audit_log) :
              ls.ls_audit_log[i].ae_event.tag # "MessageProcessed"
        /\ ProcessMessageReturned =>
              LET tags == LogTags(written.result.audit_log)
              IN  /\ Len(tags) >= 2
                  /\ tags[1] = "RouteResolved"
                  /\ tags[Len(tags)] = "MessageProcessed"
                  /\ \A i \in 1..(Len(tags) - 1) : tags[i] # "MessageProcessed"

\* a request that ran out of fuel after a tool round has returned
C19_Witness ==
    /\ ProcessMessageReturned
    /\ Len(hist.decisions) > 0
    /\ LET log == written.result.audit_log
       IN  log[Len(log)].ae_event.payload = "fuel_exhausted"

\* a request that ended on a final response after a tool round has returned
C19_WitnessFinal ==
    /\ ProcessMessageReturned
    /\ Len(hist.decisions) > 0
    /\ LET log == written.result.audit_log
       IN  log[Len(log)].ae_event.payload = "final_response"

\* the messages the request in hand added after its User message
RECURSIVE SinceUser(_)
SinceUser(msgs) ==
    IF msgs = <<>> \/ msgs[Len(msgs)].msg_role = "User" THEN <<>>
    ELSE Append(SinceUser(SubSeq(msgs, 1, Len(msgs) - 1)), msgs[Len(msgs)])

\* the tool calls the assistant messages of msgs asked for, in array order
RECURSIVE AskedCalls(_)
AskedCalls(msgs) ==
    IF msgs = <<>> THEN <<>>
    ELSE (IF Head(msgs).msg_role = "Assistant" THEN Head(msgs).msg_tool_calls
          ELSE <<>>) \o AskedCalls(Tail(msgs))

\* the tool names of the authorization entries of a log, in log order
RECURSIVE DecisionEntries(_)
DecisionEntries(log) ==
    IF log = <<>> THEN <<>>
    ELSE (IF Head(log).ae_event.tag \in {"ToolAuthorized", "ToolDenied"}
          THEN <<Head(log).ae_event.payload>> ELSE <<>>) \o DecisionEntries(Tail(log))

\* the ids the Tool messages of msgs answer, in order
RECURSIVE ToolMessageIds(_)
ToolMessageIds(msgs) ==
    IF msgs = <<>> THEN <<>>
    ELSE (IF Head(msgs).msg_role = "Tool" THEN <<Head(msgs).msg_tool_call_id>>
          ELSE <<>>) \o ToolMessageIds(Tail(msgs))

\* the loop is between two rounds: it waits for an llm_call or has returned
BetweenRounds ==
    InProcessMessage /\ (ProcessMessageReturned
                           \/ (pc = "await" /\ pending[1].method = "llm_call"))

-----------------------------------------------------------------------------
(* Properties of the main loop and of the end of the process. *)

\* C21: a protocol error on an incoming message (malformed frame, payload
\* that is not JSON, unknown method) is answered with a JSON-RPC error
\* response, code -32601 for an unknown method, and leaves the core running,
\* so that the next request is still read.
C21_ProtocolErrorAnswered ==
    [][/\ BadInput =>
            /\ pc' \in {"idle", "await"}
            /\ "error" \in DOMAIN written'
            /\ written' # written
       /\ (IORequest /\ req'.method \notin {"process_message", "ping"}) =>
            /\ pc' = "idle"
            /\ written' = json_rpc_error(req'.id, -32601,
                                        "Method not found: " \o req'.method)]_vars

\* the part of it the runtime keeps: an unknown method is answered with
\* code -32601 and the main loop goes on
UnknownMethodAnswered ==
    [][(IORequest /\ req'.method \notin {"process_message", "ping"}) =>
          /\ pc' = "idle"
          /\ written' = json_rpc_error(req'.id, -32601,
                                      "Method not found: " \o req'.method)]_vars

\* C22: when stdin ends while a callback is pending the core exits with a
\* non-zero code; when it ends between requests the core exits with code 0.
C22_ExitCodeAtEndOfFile ==
    [][EndOfFile =>
          /\ pc' = "exited"
          /\ pc = "await" => exit_code' # Some(0)
          /\ pc = "idle" => exit_code' = Some(0)]_vars

\* C23: requests are served one at a time and none is dropped: when
\* process_message has returned, the response written carries the id of the
\* request in hand, and no other request has been taken off stdin since that
\* request was read.
C23_NoRequestDropped ==
    ProcessMessageReturned =>
        /\ written.id = req.id
        /\ \A r \in hist.reads : r.kind # "request"

-----------------------------------------------------------------------------
(* Properties of append_entry and chain_valid on any log. *)

\* C24: for every log and every input, append returns a log one entry longer
\* whose first entries are those of the log given, unchanged, and whose last
\* entry has sequence = length of the log given, prev_hash = hash of its last
\* entry ("" when it is empty) and the timestamp, event, agent_id, session_key
\* and request_id given.
C24_AppendAddsOneEntry ==
    ap # None =>
        LET c == ap[1]
            n == Len(c.log)
            r == c.result
        IN  /\ Len(r) = n + 1
            /\ SubSeq(r, 1, n) = c.log
            /\ r[n + 1].ae_sequence = n
            /\ r[n + 1].ae_prev_hash = IF n = 0 THEN "" ELSE hash_entry(c.log[n])
            /\ r[n + 1].ae_timestamp = c.timestamp
            /\ r[n + 1].ae_event = c.event
            /\ r[n + 1].ae_agent_id = c.agent_id
            /\ r[n + 1].ae_session_key = c.session_key
            /\ r[n + 1].ae_request_id = c.request_id

\* an append to a log of two different entries that is not chain-valid and
\* whose last entry carries a sequence number other than its position
C24_Witness ==
    /\ ap # None
    /\ Len(ap[1].log) = 2
    /\ ~ap[1].valid
    /\ ap[1].log[1] # ap[1].log[2]
    /\ ap[1].log[2].ae_sequence = 5
    /\ ap[1].result[3].ae_sequence = 2

\* C25: the chain validator accepts the empty log, and accepts a one-entry
\* log exactly when its entry has prev_hash = "" and sequence = 0.
C25_SingletonNeedsOrigin ==
    ap # None =>
        /\ Len(ap[1].log) = 0 => ap[1].valid
        /\ Len(ap[1].log) = 1 =>
              (ap[1].valid <=> /\ ap[1].log[1].ae_prev_hash = ""
                               /\ ap[1].log[1].ae_sequence = 0)

\* what the validator does: every log of at most one entry is accepted
ShortLogsAccepted ==
    (ap # None /\ Len(ap[1].log) <= 1) => ap[1].valid

-----------------------------------------------------------------------------
(* Properties of the session. *)

\* C26: on every session reached from empty_session by add_message and
\* summarize, message_count is the number of add_message operations applied
\* and no operation lowers it; add_message raises message_count and the
\* length of messages by 1, puts the message at the end and leaves key and
\* summary as they were.
C26_CountIsNumberOfAdds ==
    /\ se.s.s_message_count = se.adds
    /\ se.last # None =>
          LET o == se.last[1]
          IN  /\ se.s.s_message_count >= o.before.s_message_count
              /\ o.op = "add_message" =>
                    /\ se.s.s_message_count = o.before.s_message_count + 1
                    /\ Len(se.s.s_messages) = Len(o.before.s_messages) + 1
                    /\ se.s.s_messages = Append(o.before.s_messages, o.msg)
                    /\ se.s.s_key = o.before.s_key
                    /\ se.s.s_summary = o.before.s_summary

\* a message added after a summarize that dropped messages: the count is
\* above the number of messages held, and the summary is kept
C26_Witness ==
    /\ se.last # None
    /\ se.last[1].op = "add_message"
    /\ se.s.s_summary # ""
    /\ se.adds = 3
    /\ Len(se.s.s_messages) = 2

\* C27: summarize leaves message_count and key as they were and keeps exactly
\* the last min(keep_last, number of messages) messages in their order, so
\* the list of messages does not grow.
C27_SummarizeKeepsLast ==
    (se.last # None /\ se.last[1].op = "summarize") =>
        LET o == se.last[1]
            n == Len(o.before.s_messages)
            k == IF o.keep_last < n THEN o.keep_last ELSE n
        IN  /\ se.s.s_message_count = o.before.s_message_count
            /\ se.s.s_key = o.before.s_key
            /\ se.s.s_messages = SubSeq(o.before.s_messages, n - k + 1, n)
            /\ Len(se.s.s_messages) <= n

\* a summarize that keeps the last one of three messages, the first of which
\* differs from the last
C27_Witness ==
    /\ se.last # None
    /\ se.last[1].op = "summarize"
    /\ se.last[1].keep_last = 1
    /\ Len(se.last[1].before.s_messages) = 3
    /\ se.last[1].before.s_messages[1] # se.last[1].before.s_messages[3]
    /\ se.s.s_messages = <<se.last[1].before.s_messages[3]>>

\* summarize with keep_last = 0 keeps none, with keep_last at or above the
\* number of messages keeps all
C27_WitnessEnds ==
    /\ se.last # None
    /\ se.last[1].op = "summarize"
    /\ Len(se.last[1].before.s_messages) = 2
    /\ \/ se.last[1].keep_last = 0 /\ se.s.s_messages = <<>>
       \/ se.last[1].keep_last = 3 /\ se.s.s_messages = se.last[1].before.s_messages

-----------------------------------------------------------------------------
(* Properties of one iteration. *)

\* C28: for every loop state, response, fuel and timestamp the state carried
\* by the outcome of step_iteration has iteration = old iteration + 1, one
\* more message, the assistant message, at the end of both the LLM window and
\* the session, one more audit entry, llm_call_completed, and the agent_id
\* and request_id it was given.
C28_StepAddsOneOfEach ==
    it # None =>
        LET c == it[1]
            old == c.state
            outcome == c.result[1]
            new == outcome.state
            n == Len(old.ls_audit_log)
            assistant_msg == new.ls_messages[Len(new.ls_messages)]
        IN  /\ outcome.tag \in {"FinalResponse", "NeedsToolCalls", "FuelExhausted"}
            /\ new.ls_iteration = old.ls_iteration + 1
            /\ new.ls_messages = Append(old.ls_messages, assistant_msg)
            /\ assistant_msg.msg_role = "Assistant"
            /\ assistant_msg.msg_content = c.response.lr_content
            /\ new.ls_session.s_messages =
                  Append(old.ls_session.s_messages, assistant_msg)
            /\ new.ls_session.s_message_count = old.ls_session.s_message_count + 1
            /\ Len(new.ls_audit_log) = n + 1
            /\ SubSeq(new.ls_audit_log, 1, n) = old.ls_audit_log
            /\ new.ls_audit_log[n + 1].ae_event.tag = "LLMCallCompleted"
            /\ c.result[2] = new.ls_audit_log
            /\ new.ls_agent_id = old.ls_agent_id
            /\ new.ls_request_id = old.ls_request_id

\* a step taken with no fuel left, on a state that already has an iteration,
\* a message and an audit entry
C28_Witness ==
    /\ it # None
    /\ it[1].fuel = 0
    /\ it[1].state.ls_iteration = 1
    /\ it[1].state.ls_messages # <<>>
    /\ it[1].state.ls_audit_log # <<>>
    /\ it[1].result[1].tag = "FuelExhausted"
    /\ it[1].result[1].state.ls_iteration = 2

\* C29: fuel = 0 gives FuelExhausted even when the response has tool calls;
\* otherwise a response with at least one tool call gives NeedsToolCalls with
\* exactly those calls, whatever its content, which is kept in the assistant
\* message; otherwise the outcome is FinalResponse with the response content.
C29_ClassificationPriority ==
    it # None =>
        LET c == it[1]
            outcome == c.result[1]
            msgs == outcome.state.ls_messages
        IN  /\ msgs[Len(msgs)].msg_content = c.response.lr_content
            /\ IF c.fuel = 0 THEN outcome.tag = "FuelExhausted"
               ELSE IF Len(c.response.lr_tool_calls) > 0
                    THEN /\ outcome.tag = "NeedsToolCalls"
                         /\ outcome.calls = c.response.lr_tool_calls
                    ELSE /\ outcome.tag = "FinalResponse"
                         /\ outcome.content = c.response.lr_content

\* no fuel and a response with tool calls: FuelExhausted
C29_Witness ==
    /\ it # None
    /\ it[1].fuel = 0
    /\ Len(it[1].response.lr_tool_calls) = 2
    /\ it[1].result[1].tag = "FuelExhausted"

\* fuel, and a response with two tool calls and a content: NeedsToolCalls
C29_WitnessContent ==
    /\ it # None
    /\ it[1].fuel > 0
    /\ Len(it[1].response.lr_tool_calls) = 2
    /\ it[1].response.lr_content = "text"
    /\ it[1].result[1].tag = "NeedsToolCalls"

\* in the runtime the loop goes on after such a response: a second llm_call
\* is awaited while the last assistant message has a content and tool calls
LoopContinuesAfterContent ==
    /\ InProcessMessage
    /\ pc = "await"
    /\ pending[1].method = "llm_call"
    /\ hist.llm_calls = 2
    /\ ls.ls_messages[Len(ls.ls_messages)].msg_content = "thinking"
    /\ ls.ls_messages[Len(ls.ls_messages)].msg_tool_calls # <<>>

-----------------------------------------------------------------------------
(* Properties of the campaign counters. *)

\* C30: along every sequence of record_tool_call, record_iteration,
\* activate_kill_switch and mark_completed the counters spent_cents,
\* tool_calls, iterations and elapsed_minutes never decrease;
\* record_tool_call adds 1 to tool_calls and the cost to spent_cents and
\* changes nothing else, record_iteration adds 1 to iterations and the elapsed
\* minutes to elapsed_minutes and changes nothing else.
C30_CountersOnlyGrow ==
    [][/\ cs'.cs_spent_cents >= cs.cs_spent_cents
       /\ cs'.cs_tool_calls >= cs.cs_tool_calls
       /\ cs'.cs_iterations >= cs.cs_iterations
       /\ cs'.cs_elapsed_minutes >= cs.cs_elapsed_minutes
       /\ \A cost \in 0..1 :
             CampaignToolCall(cost) =>
                 /\ cs'.cs_tool_calls = cs.cs_tool_calls + 1
                 /\ cs'.cs_spent_cents = cs.cs_spent_cents + cost
                 /\ cs'.cs_iterations = cs.cs_iterations
                 /\ cs'.cs_elapsed_minutes = cs.cs_elapsed_minutes
                 /\ cs'.cs_killed = cs.cs_killed
                 /\ cs'.cs_completed = cs.cs_completed
                 /\ exec'.ToolCalls = exec.ToolCalls + 1
                 /\ exec'.SpentCents = exec.SpentCents + cost
       /\ \A elapsed \in 0..1 :
             CampaignIteration(elapsed) =>
                 /\ cs'.cs_iterations = cs.cs_iterations + 1
                 /\ cs'.cs_elapsed_minutes = cs.cs_elapsed_minutes + elapsed
                 /\ cs'.cs_tool_calls = cs.cs_tool_calls
                 /\ cs'.cs_spent_cents = cs.cs_spent_cents
                 /\ cs'.cs_killed = cs.cs_killed
                 /\ cs'.cs_completed = cs.cs_completed]_vars

\* tool calls of cost 0 and 1 and iterations of 0 and 1 minutes have been
\* recorded, the kill switch is on and the campaign is marked completed
C30_Witness ==
    /\ cs.cs_tool_calls = 2
    /\ cs.cs_spent_cents = 1
    /\ cs.cs_iterations = 2
    /\ cs.cs_elapsed_minutes = 1
    /\ cs.cs_killed
    /\ cs.cs_completed

-----------------------------------------------------------------------------
(* Properties of the kill switch and of the tool gate. *)

\* C31: once activate_kill_switch has been applied, killed stays true under
\* every later record_tool_call, record_iteration and mark_completed, and
\* should_halt returns KillSwitchActivated in every such state for every
\* guardrails value, also when the state is completed or over a limit.
C31_KillSwitchWins ==
    /\ [](cs.cs_killed =>
             \A g \in GuardrailInputs : should_halt(g, cs) = Some("KillSwitchActivated"))
    /\ [][cs.cs_killed => cs'.cs_killed]_vars

\* a killed campaign that was afterwards marked completed and has recorded
\* tool calls and iterations up to the limits
C31_Witness ==
    /\ cs.cs_killed
    /\ cs.cs_completed
    /\ cs.cs_tool_calls >= gr.gr_max_tool_calls
    /\ cs.cs_iterations >= gr.gr_max_iterations
    /\ cs.cs_tool_calls = 2
    /\ cs.cs_iterations = 2

C34_WitnessOpen ==
    /\ ~exec.KillSwitchUsed
    /\ ~gr.gr_read_only
    /\ exec.ToolCalls = 1
    /\ gr.gr_max_tool_calls = 2
    /\ \A toolName \in C11_ToolNames : CanExecuteTool(WithDefinition(exec, gr), toolName)

-----------------------------------------------------------------------------
(* Properties of the Go campaign Runner. *)

\* Stop(id) has returned nil
StopSucceeded == rn.stop = "done"

\* C32: after Runner.Stop(id) has succeeded on a running campaign the
\* execution is Canceled with KillSwitchUsed set, and nothing the run
\* goroutine does afterwards makes it Completed, Failed or Running.
C32_StoppedStaysCanceled ==
    StopSucceeded => rn.Status = "canceled" /\ rn.KillSwitchUsed

\* what Stop itself leaves behind: when it returns, the execution is Canceled
\* with KillSwitchUsed set
StopLeavesCanceled ==
    [][StopCancel => rn'.Status = "canceled" /\ rn'.KillSwitchUsed]_vars

\* the campaign was stopped, ran out of time or violated a guardrail
Hindered ==
    \/ rn.stop \in {"locked", "killed", "written", "done"}
    \/ rn.ElapsedMinutes >= rn.g.gr_max_duration
    \/ rn.SpentCents >= rn.g.gr_budget_cents
    \/ rn.ToolCalls >= rn.g.gr_max_tool_calls
    \/ Len(rn.steps) > rn.g.gr_max_iterations

\* C33: a started campaign that is neither stopped nor timed out and violates
\* no guardrail ends Completed, with one StepResult per step in step order
\* and Iterations the number of steps; a step whose targets all failed is
\* recorded with a non-empty Error and does not keep the campaign from
\* completing.  Every run goroutine comes to its end.
C33_UnhinderedCompletes ==
    /\ (rn.pc # "idle") ~> (rn.pc = "done")
    /\ []((rn.pc = "done" /\ ~Hindered) =>
            /\ rn.Status = "completed"
            /\ Len(rn.Results) = Len(rn.steps)
            /\ \A k \in 1..Len(rn.steps) : rn.Results[k].StepName = rn.steps[k].Name
            /\ rn.Iterations = Len(rn.steps)
            /\ \A k \in rn.failed : rn.Results[k].Error # "")

\* a two-step campaign has completed unhindered; every target of its first
\* step failed and its second step succeeded
C33_Witness ==
    /\ rn.pc = "done"
    /\ ~Hindered
    /\ rn.Status = "completed"
    /\ Len(rn.steps) = 2
    /\ rn.failed = {1}
    /\ rn.Results[2].Error = ""

\* C40: the run goroutine reads the execution's mutable fields in
\* checkGuardrails only while Stop is not inside its critical section.
C40_GuardOutsideStop ==
    [][RunGuard => MutexFree]_vars

-----------------------------------------------------------------------------
(* Parity of the Go reference cascade and the verified cascade. *)

\* C35: for every bindings list and every input with a channel, account,
\* guild, team and peer id and no parent peer, the Go cascade resolveAgent and
\* the verified resolve_route, given findDefaultAgent(cfg) as default, choose
\* the same agent.
C35_CascadesAgree ==
    ra # None => ra[1].agent = ra[1].route.rr_agent_id

\* the two cascades agree when no binding names the account wildcard and no
\* binding joins an account with a guild or a team
CascadesAgreeOnPlainBindings ==
    (/\ ra # None
     /\ \A k \in 1..Len(ra[1].cfg.Bindings) :
           LET m == ra[1].cfg.Bindings[k].Match
           IN  m.AccountID \in {"", "acct1"} /\ (m.AccountID = "" \/ m.GuildID = ""))
    => ra[1].agent = ra[1].route.rr_agent_id

-----------------------------------------------------------------------------
(* Properties of the MessageBus. *)

\* C36: a Publish call that started after a Close call had returned returns
\* ErrBusClosed and puts nothing on a channel; however many Close calls
\* there are, done is closed at most once, and once when they have all
\* returned.
C36_ClosedBusRefuses ==
    /\ \A p \in 1..MaxPublishers :
          (bus.pubs[p].after /\ bus.pubs[p].pc # "idle")
          => /\ bus.pubs[p].pc = "done"
             /\ bus.pubs[p].result = "ErrBusClosed"
             /\ ~bus.pubs[p].sent
    /\ bus.done_closes <= 1
    /\ (\A c \in 1..MaxClosers : bus.closers[c] = "returned") => bus.done_closes = 1
    /\ bus.close_returned => bus.closed

\* two Close calls have returned; a Publish call that started afterwards with
\* a cancelled context and room on its channel was refused, one that started
\* before was not
C36_Witness ==
    /\ \A c \in 1..MaxClosers : bus.closers[c] = "returned"
    /\ bus.done_closes = 1
    /\ \E p \in 1..MaxPublishers :
          /\ bus.pubs[p].after /\ bus.pubs[p].pc = "done" /\ bus.pubs[p].ctxDone
          /\ BusQueue(bus, bus.pubs[p].q) = <<>>
    /\ \E p \in 1..MaxPublishers : ~bus.pubs[p].after /\ bus.pubs[p].sent

\* a Publish call that started before Close can still put its message on the
\* channel after done was closed
C36_WitnessLateSend ==
    \E p \in 1..MaxPublishers :
        /\ bus.done_closes = 1
        /\ bus.pubs[p].sent
        /\ bus.inbound = <<p>>

-----------------------------------------------------------------------------
(* The LLM window of process_message. *)

\* the core has written an llm_call request and waits for its answer
LLMCallPending == pc = "await" /\ pending # None /\ pending[1].method = "llm_call"

\* C37: the messages of every llm_call request are the context of the loop
\* state's session: a System message with the summary when there is one, then
\* the session's messages in order; the loop state's window is that list at
\* every point where process_message waits.
C37_WindowIsSessionContext ==
    LET sess == ls.ls_session
        summary_part ==
            IF sess.s_summary = "" THEN <<>>
            ELSE <<Message("System",
                           "Previous conversation summary:\n" \o sess.s_summary,
                           "", <<>>, "")>>
    IN  /\ (InProcessMessage /\ pc = "await")
               => ls.ls_messages = summary_part \o sess.s_messages
        /\ LLMCallPending
               => pending[1].params.messages = summary_part \o sess.s_messages

\* the llm_call of a second round of a later request of the same session:
\* the window holds the earlier request's messages, this request's user
\* message and the assistant message of the round before
C37_Witness ==
    /\ LLMCallPending
    /\ served >= 1
    /\ Len(pending[1].params.messages) >= 4
    /\ pending[1].params.messages[Len(pending[1].params.messages)].msg_role = "Assistant"

\* what the loop does with a batch of tool messages, on sessions with and
\* without a summary: appending the batch to the window and folding
\* add_message over it keeps the window the context of the session
WindowFollowsSession ==
    \A msgs \in SeqsUpTo({Message("Tool", "out", "", <<>>, "c1"),
                          Message("Tool", "err", "", <<>>, "c2")}, 2) :
        build_context(FoldAddMessage(se.s, msgs)) = build_context(se.s) \o msgs

\* a session with a summary and messages
WindowFollowsSessionCase == se.s.s_summary # "" /\ se.s.s_messages # <<>>

-----------------------------------------------------------------------------
(* Properties of the CoreProxy. *)

\* C38: the request ids of concurrent call invocations are pairwise
\* distinct; a frame read by readResponses reaches only the channel of the
\* call whose request id is the frame's id, so that no call receives the
\* answer to another call's request; a call that has returned has no entry in
\* the callbacks map, and the map holds only calls that have not returned.
C38_ResponsesReachTheirCall ==
    /\ \A c1, c2 \in 1..MaxCalls :
          (c1 # c2 /\ px.calls[c1].pc # "idle" /\ px.calls[c2].pc # "idle")
          => px.calls[c1].id # px.calls[c2].id
    /\ \A c \in 1..MaxCalls :
          /\ \A k \in 1..Len(px.calls[c].buf) :
                px.calls[c].buf[k][1] = px.calls[c].id
          /\ px.calls[c].got # None
                => /\ px.calls[c].got[1][1] = px.calls[c].id
                   /\ px.calls[c].got[1][2] \in {"result", "error"}
                         => px.calls[c].got[1][3] = px.calls[c].id
          /\ px.calls[c].pc = "returned"
                => callback_of(px, px.calls[c].id) = {}
    /\ \A e \in px.callbacks :
          px.calls[e[2]].id = e[1] /\ px.calls[e[2]].pc \in {"wait", "defer"}

\* two calls whose ids were taken in the other order than the calls are
\* numbered have both returned with the result of their own request
C38_Witness ==
    /\ px.calls[1].id = 2
    /\ px.calls[2].id = 1
    /\ \A c \in {1, 2} :
          /\ px.calls[c].pc = "returned"
          /\ px.calls[c].got = Some(<<px.calls[c].id, "result", px.calls[c].id>>)
    /\ px.callbacks = {}

\* both calls wait at the same time for their answers
C38_WitnessConcurrent ==
    /\ px.calls[1].pc = "wait"
    /\ px.calls[2].pc = "wait"
    /\ Len(px.stdin) = 2

\* C39: no call stays blocked after the core has exited: every call that has
\* started returns.
C39_NoCallBlockedAfterExit ==
    \A c \in 1..MaxCalls :
        (px.core = "exited" /\ px.calls[c].pc # "idle") ~> (px.calls[c].pc = "returned")

\* a call answered with a JSON-RPC error returns an error
ErrorAnswerReturnsError ==
    \A c \in 1..MaxCalls :
        (/\ px.calls[c].pc = "returned"
         /\ px.calls[c].got # None
         /\ px.calls[c].got[1][2] = "error")
        => px.calls[c].err # ""

\* a call whose context is cancelled returns that error, and a call whose
\* write fails returns that error
CancelledCallReturnsError ==
    [][\A c \in 1..MaxCalls :
          (CallCancel(c) => px'.calls[c].err = "context canceled")
          /\ ((CallSend(c) /\ px.core = "exited") => px'.calls[c].err # "")]_vars
====
